---- MODULE Spec2Model ----
(***************************************************************************)
(* docstack: the page-composition model of the PDF merger.                 *)
(*                                                                         *)
(* The state is the working set of state.js (uploadedFiles,                *)
(* globalPageOrder, currentView, allPagesRendered), the part of the DOM    *)
(* the handlers read their inputs from (the Pages-view grid, the           *)
(* Files-view grids of the cards, the panels, the merge button), and the   *)
(* positions of the asynchronous loops (upload timers, the progressive     *)
(* thumbnail loops).  Every handler is one action.                         *)
(*                                                                         *)
(* Scope: documents load without a password, so mergePDFs takes the        *)
(* copyPages path; a merge is one step; rule texts are sequences of        *)
(* characters; the user edits pages, documents and rules on a settled      *)
(* screen (no upload timer or rendering callback pending), while uploads,  *)
(* view switches and merges come at any time.                              *)
(*                                                                         *)
(* RulesSpec is the parser on its own: parseRules applied to every rule    *)
(* text over RuleChars up to MaxRuleLen characters, for every pageCount up *)
(* to MaxCount.                                                            *)
(*                                                                         *)
(* StateSpec is state.js on its own: its exported functions and            *)
(* performCrossFileImport called in any order with any argument, up to     *)
(* MaxCalls calls.                                                         *)
(*                                                                         *)
(* MergeSpec is mergePDFs page by page: one step per await of its loops,   *)
(* with calls of the state functions between the steps.                    *)
(*                                                                         *)
(* FairSpec is Spec with the timers and the rendering callbacks scheduled  *)
(* fairly, and with a document removed while an upload's callback is       *)
(* pending.                                                                *)
(*                                                                         *)
(* UploadSpec is handleFiles file by file, for lists of files that load,   *)
(* fail to load or ask for a password.                                     *)
(***************************************************************************)
EXTENDS Integers, Sequences, FiniteSets, TLC

\* Bounds of the model.
MaxFiles == 2      \* documents uploaded in one session
MaxPages == 2      \* physical pages of an uploaded document
MaxOps == 2        \* user edits (expand, delete, rotate, drag, remove, reorder, rules)
MaxRuleLen == 4    \* characters of a rule text handed to parseRules
MaxCount == 3      \* pageCount handed to parseRules
MaxCalls == 6      \* calls of the state functions in a row
MaxRunCalls == 4   \* calls of the state functions before and during a merge
MaxList == 3       \* files handed to one handleFiles
MaxUploads == 2    \* calls of handleFiles file by file
MaxTries == 2      \* passwords entered for one file

VARIABLES
    uploadedFiles,      \* state.js: the working set, in document order
    globalPageOrder,    \* state.js: flat order of the Pages view
    currentView,        \* state.js: "byFile" or "allPages"
    allPagesRendered,   \* state.js
    allPagesGrid,       \* DOM: thumbs of the Pages view, in DOM order
    pagesGrids,         \* DOM: thumbs of each card's .pages-grid (Files view)
    panelHidden,        \* DOM: whether a card's .pages-panel is hidden
    gridRenders,        \* running renderFileGrid loops
    isRendering,        \* views.js: the Pages loop is active
    pagesToRender,      \* views.js: the Pages loop's snapshot of pages
    currentIndex,       \* views.js: the Pages loop's position
    loopPhase,          \* what the Pages loop waits for
    mergeDisabled,      \* DOM: mergeBtn.disabled
    timers,             \* pending setTimeout callbacks of handleFiles
    nextId,             \* ids handed out by generateId so far
    ops,                \* user edits so far
    mergeOut,           \* what the last handler downloaded, if it was a merge
    deletedPages,       \* history: the {fileId, pageIndex} deletePage has removed
    ruleText,           \* parseRules: the rule text typed so far
    rulePageCount,      \* parseRules: the pageCount it is called with
    ruleOut,            \* parseRules: what it returns for them
    mergeRun,           \* merge.js: a mergePDFs between two of its awaits
    emitted,            \* state.js: the event types emit dispatched in the last step
    totalToRender,      \* views.js: the pages the Pages loop has been given
    renderedCount,      \* views.js: the pages the Pages loop has done
    upload              \* upload.js: a handleFiles between two of its awaits

vars == << uploadedFiles, globalPageOrder, currentView, allPagesRendered,
           allPagesGrid, pagesGrids, panelHidden, gridRenders, isRendering,
           pagesToRender, currentIndex, loopPhase, mergeDisabled, timers,
           nextId, ops, mergeOut, deletedPages, ruleText, rulePageCount,
           ruleOut, mergeRun, emitted, totalToRender, renderedCount,
           upload >>

ruleVars == << ruleText, rulePageCount, ruleOut >>

modelVars == << uploadedFiles, globalPageOrder >>

\* ------------------------------------------------------------------------
\* Sequences
\* ------------------------------------------------------------------------

RemoveAt(s, i) == SubSeq(s, 1, i - 1) \o SubSeq(s, i + 1, Len(s))

InsertAt(s, i, x) == SubSeq(s, 1, i - 1) \o << x >> \o SubSeq(s, i, Len(s))

\* Sortable: the dragged element leaves place i and lands on place j.
MoveItem(s, i, j) == InsertAt(RemoveAt(s, i), j, s[i])

Range(s) == { s[i] : i \in 1..Len(s) }

\* Array.prototype.find / querySelector: the first place that matches, or 0.
FirstIndex(s, P(_)) ==
    IF \E i \in 1..Len(s) : P(s[i])
    THEN CHOOSE i \in 1..Len(s) : P(s[i]) /\ \A k \in 1..(i - 1) : ~P(s[k])
    ELSE 0

\* Map.set over a list: the last place that matches, or 0.
LastIndex(s, P(_)) ==
    IF \E i \in 1..Len(s) : P(s[i])
    THEN CHOOSE i \in 1..Len(s) : P(s[i]) /\ \A k \in (i + 1)..Len(s) : ~P(s[k])
    ELSE 0

\* ------------------------------------------------------------------------
\* state.js
\* ------------------------------------------------------------------------

hasFile(files, fileId) == \E i \in 1..Len(files) : files[i].id = fileId

getFile(files, fileId) ==
    files[CHOOSE i \in 1..Len(files) :
            files[i].id = fileId /\ \A k \in 1..(i - 1) : files[k].id # fileId]

\* A handler's assignment to a field of the object getFile returned.
putFile(files, file) ==
    [i \in 1..Len(files) |-> IF files[i].id = file.id THEN file ELSE files[i]]

\* A fileData record whose pageOrder is left empty.
fileData_NoOrder(id, n) ==
    [ id |-> id,
      numPages |-> n,
      pageCount |-> n,
      rules |-> << >>,
      pageRotations |-> [i \in 1..n |-> 0],
      pageOrder |-> << >>,
      importedPages |-> << >> ]

\* upload.js: the fileData record of a loaded document with n pages.
fileData(id, n) ==
    [ id |-> id,
      numPages |-> n,
      pageCount |-> n,
      rules |-> << >>,
      pageRotations |-> [i \in 1..n |-> 0],
      pageOrder |-> [i \in 1..n |-> i - 1],
      importedPages |-> << >> ]

addFile(files, file) == Append(files, file)

removeFile(files, fileId) == SelectSeq(files, LAMBDA f : f.id # fileId)

\* A removeFile that leaves globalPageOrder as it is.
removeFileGlobal_Keep(order, fileId) == order

removeFileGlobal(order, fileId) == SelectSeq(order, LAMBDA e : e.fileId # fileId)

\* A reorder that leaves the documents as they stand.
reorderFiles_Keep(files, newFileIds) == files

reorderFiles(files, newFileIds) ==
    LET picked == SelectSeq(newFileIds, LAMBDA id : hasFile(files, id))
    IN  [i \in 1..Len(picked) |-> getFile(files, picked[i])]

deletePageOrder(pageOrder, pageIndex) ==
    SelectSeq(pageOrder, LAMBDA idx : idx # pageIndex)

deletePageGlobal(order, fileId, pageIndex) ==
    SelectSeq(order, LAMBDA e : ~(e.fileId = fileId /\ e.pageIndex = pageIndex))

\* A deletePage that gives the deleted index back: pageCount goes down.
deletePage_Compact(files, fileId, pageIndex) ==
    IF ~hasFile(files, fileId) THEN files
    ELSE LET file == getFile(files, fileId)
         IN  putFile(files,
                [file EXCEPT !.pageOrder = deletePageOrder(@, pageIndex),
                             !.pageCount = @ - 1])

deletePage(files, fileId, pageIndex) ==
    IF ~hasFile(files, fileId) THEN files
    ELSE LET file == getFile(files, fileId)
         IN  putFile(files,
                [file EXCEPT !.pageOrder = deletePageOrder(@, pageIndex)])

\* The % of JavaScript: the remainder has the sign of the dividend.
jsRemainder(a, m) == IF a >= 0 THEN a % m ELSE 0 - ((0 - a) % m)

\* state.js rotatePage, for a page index the document has
rotatePage(files, fileId, pageIndex, degrees) ==
    IF ~hasFile(files, fileId) THEN files
    ELSE LET file == getFile(files, fileId)
         IN  putFile(files,
                [file EXCEPT !.pageRotations[pageIndex + 1] =
                                jsRemainder(@ + degrees, 360)])

buildGlobalPageOrder(files) ==
    LET F[i \in 0..Len(files)] ==
            IF i = 0 THEN << >>
            ELSE F[i - 1] \o
                 [k \in 1..Len(files[i].pageOrder) |->
                    [fileId |-> files[i].id, pageIndex |-> files[i].pageOrder[k]]]
    IN  F[Len(files)]

getTotalPageCount(files) ==
    LET F[i \in 0..Len(files)] ==
            IF i = 0 THEN 0 ELSE F[i - 1] + Len(files[i].pageOrder)
    IN  F[Len(files)]

\* file.importedPages?.find(p => p.newIndex === pageIndex): the place, or 0.
findImported(file, pageIndex) ==
    FirstIndex(file.importedPages, LAMBDA p : p.newIndex = pageIndex)

\* file.pageRotations[pageIndex] || 0
rotationOf(file, pageIndex) ==
    IF pageIndex + 1 \in 1..Len(file.pageRotations)
    THEN file.pageRotations[pageIndex + 1] ELSE 0

\* ------------------------------------------------------------------------
\* utils/helpers.js: parseRules.  A rule text is a sequence of characters.
\* ------------------------------------------------------------------------

Digits == << "0", "1", "2", "3", "4", "5", "6", "7", "8", "9" >>

isDigit(c) == \E d \in 1..10 : Digits[d] = c

digitValue(c) == (CHOOSE d \in 1..10 : Digits[d] = c) - 1

\* /\s/: the white space of a rule text
isSpace(c) == c = " "

\* A test for the empty text alone, for which a text of spaces is a rule.
trimIsEmpty_NoTrim(text) == Len(text) = 0

\* rulesStr.trim(): empty exactly when every character is white space
trimIsEmpty(text) == \A i \in 1..Len(text) : isSpace(text[i])

\* rulesStr.replace(/\s/g, '')
stripSpaces(text) == SelectSeq(text, LAMBDA c : ~isSpace(c))

\* String.prototype.split(','): the parts between the commas, empty ones kept
split(text) ==
    LET F[i \in 0..Len(text)] ==
            IF i = 0 THEN << << >> >>
            ELSE LET done == F[i - 1]
                 IN  IF text[i] = ","
                     THEN Append(done, << >>)
                     ELSE [done EXCEPT ![Len(done)] = Append(@, text[i])]
    IN  F[Len(text)]

\* The end of the longest run of digits of part that starts at place p.
digitsEnd(part, p) ==
    IF \E q \in p..Len(part) : ~isDigit(part[q])
    THEN CHOOSE q \in p..Len(part) :
            ~isDigit(part[q]) /\ \A k \in p..(q - 1) : isDigit(part[k])
    ELSE Len(part) + 1

\* (-?\d+)? at place p: [found, next, value], value as parseInt reads it.
matchNumber(part, p) ==
    LET neg == p <= Len(part) /\ part[p] = "-"
        from == IF neg THEN p + 1 ELSE p
        to == digitsEnd(part, from)
        V[k \in (from - 1)..(to - 1)] ==
            IF k = from - 1 THEN 0 ELSE 10 * V[k - 1] + digitValue(part[k])
    IN  IF from <= Len(part) /\ to > from
        THEN [found |-> TRUE, next |-> to,
              value |-> IF neg THEN 0 - V[to - 1] ELSE V[to - 1]]
        ELSE [found |-> FALSE, next |-> p, value |-> 0]

\* A clause pattern for which every rotation suffix is a quarter turn.
matchRotation_Quarter(part, g1, hasRange, g3, p4) ==
    LET hasRot == p4 <= Len(part) /\ part[p4] \in { ">", "V", "<" }
    IN  [ matched |-> (IF hasRot THEN p4 + 1 ELSE p4) = Len(part) + 1,
          hasStart |-> g1.found, start |-> g1.value,
          hasRange |-> hasRange,
          hasEnd |-> g3.found, end |-> g3.value,
          rotation |-> IF hasRot THEN 90 ELSE 0 ]

\* ([>V<])?$ at place p4, after the groups g1, hasRange and g3: the match.
matchRotation(part, g1, hasRange, g3, p4) ==
    LET hasRot == p4 <= Len(part) /\ part[p4] \in { ">", "V", "<" }
    IN  [ matched |-> (IF hasRot THEN p4 + 1 ELSE p4) = Len(part) + 1,
          hasStart |-> g1.found, start |-> g1.value,
          hasRange |-> hasRange,
          hasEnd |-> g3.found, end |-> g3.value,
          rotation |-> IF ~hasRot THEN 0
                       ELSE IF part[p4] = ">" THEN 90
                       ELSE IF part[p4] = "V" THEN 180 ELSE 270 ]

\* (-?\d+)?([>V<])?$ at place p3
matchEnd(part, g1, hasRange, g3) ==
    matchRotation(part, g1, hasRange, g3, g3.next)

\* (\.\.)?(-?\d+)?([>V<])?$ at place p2
matchRange(part, g1, p2) ==
    IF p2 + 1 <= Len(part) /\ part[p2] = "." /\ part[p2 + 1] = "."
    THEN matchEnd(part, g1, TRUE, matchNumber(part, p2 + 2))
    ELSE matchEnd(part, g1, FALSE, matchNumber(part, p2))

\* part.match(/^(-?\d+)?(\.\.)?(-?\d+)?([>V<])?$/)
matchStart(part, g1) == matchRange(part, g1, g1.next)

matchPart(part) == matchStart(part, matchNumber(part, 1))

\* A parser whose page numbers are not clamped to the document.
clamp_None(pageCount, n) == n

clamp(pageCount, n) ==
    LET m == IF pageCount < n THEN pageCount ELSE n
    IN  IF 1 > m THEN 1 ELSE m

\* A parser that does not count negative numbers from the end.
fromEnd_None(pageCount, n) == n

\* Handle negative indices
fromEnd(pageCount, n) == IF n < 0 THEN pageCount + n + 1 ELSE n

\* A range loop that always counts upwards, from the smaller bound.
pageRange_Ascending(start, end, rotation) ==
    IF start <= end
    THEN [k \in 1..(end - start + 1) |->
            [page |-> start + k - 2, rotation |-> rotation]]
    ELSE [k \in 1..(start - end + 1) |->
            [page |-> end + k - 2, rotation |-> rotation]]

\* Generate page range
pageRange(start, end, rotation) ==
    IF start <= end
    THEN [k \in 1..(end - start + 1) |->
            [page |-> start + k - 2, rotation |-> rotation]]
    ELSE [k \in 1..(start - end + 1) |->
            [page |-> start - k, rotation |-> rotation]]

\* A parser for which a missing end is the start, ".." or not.
clausePages_NoOpenEnd(m, pageCount, start0) ==
    IF ~m.matched THEN << >>
    ELSE pageRange(clamp(pageCount, fromEnd(pageCount, start0)),
                   clamp(pageCount, fromEnd(pageCount,
                        IF m.hasEnd THEN m.end ELSE start0)),
                   m.rotation)

\* A parser that reads what it can of a clause the pattern rejects.
clausePages_KeepMalformed(m, pageCount, start0) ==
    pageRange(clamp(pageCount, fromEnd(pageCount, start0)),
              clamp(pageCount, fromEnd(pageCount,
                   IF m.hasEnd THEN m.end
                   ELSE IF m.hasRange THEN pageCount ELSE start0)),
              m.rotation)

\* The entries the match m of one clause contributes.
clausePages(m, pageCount, start0) ==
    IF ~m.matched THEN << >>
    ELSE pageRange(
            clamp(pageCount, fromEnd(pageCount, start0)),
            clamp(pageCount, fromEnd(pageCount,
                IF m.hasEnd THEN m.end
                ELSE IF m.hasRange THEN pageCount ELSE start0)),
            m.rotation)

matchPages(m, pageCount) ==
    clausePages(m, pageCount, IF m.hasStart THEN m.start ELSE 1)

\* The entries one clause of a rule text contributes.
parseClause(part, pageCount) == matchPages(matchPart(part), pageCount)

parseRules(rulesStr, pageCount) ==
    IF trimIsEmpty(rulesStr)
    THEN [i \in 1..pageCount |-> [page |-> i - 1, rotation |-> 0]]
    ELSE LET parts == split(stripSpaces(rulesStr))
             F[i \in 0..Len(parts)] ==
                IF i = 0 THEN << >>
                ELSE F[i - 1] \o parseClause(parts[i], pageCount)
         IN  F[Len(parts)]

\* ------------------------------------------------------------------------
\* The DOM: thumbs, grids, and the progressive rendering loops of views.js
\* ------------------------------------------------------------------------

FileIds == 1..MaxFiles

\* components.js createPageThumb, view 'pages': the dataset (fileId,
\* pageIndex, rendered) and the (file, pageIndex) its rotate handler closes
\* over.  rendered is "no", "busy" (the loop holds the element and has not
\* set data-rendered yet) or "yes".
pagesThumb(fileId, pageIndex, rendered) ==
    [ fileId |-> fileId, pageIndex |-> pageIndex,
      cFile |-> fileId, cPage |-> pageIndex, rendered |-> rendered ]

\* components.js createPageThumb, view 'files'
filesThumb(fileId, pageIndex) ==
    [ fileId |-> fileId, pageIndex |-> pageIndex,
      cFile |-> fileId, cPage |-> pageIndex ]

\* An imported page whose source document is gone: nothing is rendered.
sourceMissing(files, file, pageIndex) ==
    LET k == findImported(file, pageIndex)
    IN  k # 0 /\ ~hasFile(files, file.importedPages[k].sourceFileId)

\* renderFileGrid: the first call of its renderNextProgressive.
renderFileGrid(files, grids, renders, fileId) ==
    LET file == getFile(files, fileId)
    IN  IF Len(file.pageOrder) = 0
        THEN [grids |-> grids, renders |-> renders]
        ELSE LET pageIndex == file.pageOrder[1]
                 gone == sourceMissing(files, file, pageIndex)
             IN  [ grids |-> [grids EXCEPT ![fileId] =
                                Append(@, filesThumb(fileId, pageIndex))],
                   renders |-> Append(renders,
                        [ fileId |-> fileId,
                          currentIndex |-> IF gone THEN 1 ELSE 0,
                          pending |-> IF gone THEN "raf" ELSE "render" ]) ]

\* renderFileGrid for every card, in document order, that passes test.
renderGrids(files, grids, renders, test(_)) ==
    LET F[i \in 0..Len(files)] ==
            IF i = 0 THEN [grids |-> grids, renders |-> renders]
            ELSE IF test(files[i].id) /\ Len(F[i - 1].grids[files[i].id]) = 0
                 THEN renderFileGrid(files, F[i - 1].grids, F[i - 1].renders,
                                     files[i].id)
                 ELSE F[i - 1]
    IN  F[Len(files)]

firstUnrendered(grid) == FirstIndex(grid, LAMBDA t : t.rendered = "no")

markRendered(grid) ==
    [i \in 1..Len(grid) |->
        IF grid[i].rendered = "busy" THEN [grid[i] EXCEPT !.rendered = "yes"]
        ELSE grid[i]]

\* The Pages loop as a record: the grid it appends to and its position.
pagesLoop(grid, rendering, queue, ci, phase, total, done) ==
    [ grid |-> grid, isRendering |-> rendering, pagesToRender |-> queue,
      currentIndex |-> ci, phase |-> phase,
      totalToRender |-> total, renderedCount |-> done ]

\* A tail of the loop that signals completion at once.
renderRemaining_Complete(L) == [L EXCEPT !.phase = "complete"]

\* The tail of the loop: the first thumb without data-rendered is taken by
\* renderUnrenderedThumb; with none left completeProgress runs.
renderRemaining(L) ==
    LET rem == firstUnrendered(L.grid)
    IN  IF rem # 0
        THEN [L EXCEPT !.grid = [@ EXCEPT ![rem].rendered = "busy"],
                       !.phase = "rest"]
        ELSE [L EXCEPT !.phase = "complete"]

\* startProgressiveRendering's renderNextProgressive
renderNextProgressive(files, L) ==
    IF L.currentIndex >= Len(L.pagesToRender)
    THEN renderRemaining(L)
    ELSE LET e == L.pagesToRender[L.currentIndex + 1]
         IN  IF ~hasFile(files, e.fileId)
             THEN [L EXCEPT !.currentIndex = @ + 1, !.renderedCount = @ + 1,
                            !.phase = "raf"]
             ELSE IF sourceMissing(files, getFile(files, e.fileId), e.pageIndex)
             THEN [L EXCEPT
                     !.grid = Append(@, pagesThumb(e.fileId, e.pageIndex, "yes")),
                     !.currentIndex = @ + 1, !.renderedCount = @ + 1,
                     !.phase = "raf"]
             ELSE [L EXCEPT
                     !.grid = Append(@, pagesThumb(e.fileId, e.pageIndex, "busy")),
                     !.phase = "render"]

startProgressiveRendering(files, L, newPages) ==
    IF L.isRendering
    THEN LET live == SelectSeq(newPages, LAMBDA e : hasFile(files, e.fileId))
         IN  [L EXCEPT !.totalToRender = @ + Len(newPages),
                       !.grid = @ \o
                [i \in 1..Len(live) |->
                    pagesThumb(live[i].fileId, live[i].pageIndex, "no")]]
    ELSE renderNextProgressive(files,
            pagesLoop(L.grid, TRUE, newPages, 0, "render", Len(newPages), 0))

\* preparePagesViewDom: [globalPageOrder, loop]
preparePagesViewDom(files, L) ==
    LET existingFileIds == { L.grid[i].fileId : i \in 1..Len(L.grid) }
        order == buildGlobalPageOrder(files)
        newPages == SelectSeq(order, LAMBDA e : e.fileId \notin existingFileIds)
    IN  [ globalPageOrder |-> order,
          loop |-> IF Len(newPages) = 0 THEN L
                   ELSE startProgressiveRendering(files, L, newPages) ]

\* One callback of the Pages loop: a render promise settles, or a
\* requestAnimationFrame / requestIdleCallback callback runs.
pagesLoopStep(files, L) ==
    IF L.phase = "render"
    THEN renderNextProgressive(files,
            [L EXCEPT !.grid = markRendered(@), !.currentIndex = @ + 1,
                      !.renderedCount = @ + 1])
    ELSE IF L.phase = "raf"
    THEN renderNextProgressive(files, L)
    ELSE renderRemaining(
            [L EXCEPT !.grid = markRendered(@),
                      !.renderedCount = @ + 1,
                      !.totalToRender = IF @ > L.renderedCount + 1 THEN @
                                        ELSE L.renderedCount + 1])

\* One callback of a renderFileGrid loop: [grid, render], render.pending =
\* "done" when the loop has ended.
gridLoopStep(files, grid, r) ==
    LET ci == IF r.pending = "render" THEN r.currentIndex + 1 ELSE r.currentIndex
        file == getFile(files, r.fileId)
    IN  IF ci >= Len(file.pageOrder)
        THEN [grid |-> grid, render |-> [r EXCEPT !.pending = "done"]]
        ELSE LET pageIndex == file.pageOrder[ci + 1]
                 gone == sourceMissing(files, file, pageIndex)
             IN  [ grid |-> Append(grid, filesThumb(r.fileId, pageIndex)),
                   render |-> [ fileId |-> r.fileId,
                                currentIndex |-> IF gone THEN ci + 1 ELSE ci,
                                pending |-> IF gone THEN "raf" ELSE "render" ] ]

\* The loop record of the state.
CurrentLoop ==
    pagesLoop(allPagesGrid, isRendering, pagesToRender, currentIndex, loopPhase,
              totalToRender, renderedCount)

\* startProgressiveRendering has started the loop L: updateMergeButton(true).
loopStarted(L) == ~isRendering /\ L.isRendering

NoOutput == [status |-> "none", pages |-> << >>]

\* No handleFiles is under way.
NoUpload == [phase |-> "idle"]

\* No mergePDFs is under way.
NoRun == [phase |-> "idle"]

Init ==
    /\ uploadedFiles = << >>
    /\ globalPageOrder = << >>
    /\ currentView = "byFile"
    /\ allPagesRendered = FALSE
    /\ allPagesGrid = << >>
    /\ pagesGrids = [id \in FileIds |-> << >>]
    /\ panelHidden = [id \in FileIds |-> TRUE]
    /\ gridRenders = << >>
    /\ isRendering = FALSE
    /\ pagesToRender = << >>
    /\ currentIndex = 0
    /\ loopPhase = "idle"
    /\ mergeDisabled = FALSE
    /\ timers = 0
    /\ nextId = 0
    /\ ops = 0
    /\ mergeOut = NoOutput
    /\ deletedPages = { }
    /\ ruleText = << >>
    /\ rulePageCount = 1
    /\ ruleOut = parseRules(<< >>, 1)
    /\ mergeRun = NoRun
    /\ emitted = { }
    /\ totalToRender = 0
    /\ renderedCount = 0
    /\ upload = NoUpload

\* The loop L becomes the state's loop; completeProgress when it has ended,
\* and then the pages:renderComplete listener of app.js expands every
\* collapsed card.
SetLoop(files, L, grids) ==
    IF L.phase = "complete"
    THEN LET r == renderGrids(files, grids, gridRenders,
                              LAMBDA id : panelHidden[id])
         IN  /\ allPagesGrid' = L.grid
             /\ isRendering' = FALSE
             /\ pagesToRender' = << >>
             /\ currentIndex' = 0
             /\ loopPhase' = "idle"
             /\ totalToRender' = 0
             /\ renderedCount' = 0
             /\ mergeDisabled' = FALSE
             /\ panelHidden' = [id \in FileIds |->
                    IF hasFile(files, id) THEN FALSE ELSE panelHidden[id]]
             /\ pagesGrids' = r.grids
             /\ gridRenders' = r.renders
    ELSE /\ allPagesGrid' = L.grid
         /\ isRendering' = L.isRendering
         /\ pagesToRender' = L.pagesToRender
         /\ currentIndex' = L.currentIndex
         /\ loopPhase' = L.phase
         /\ totalToRender' = L.totalToRender
         /\ renderedCount' = L.renderedCount
         /\ pagesGrids' = grids
         /\ UNCHANGED << mergeDisabled, panelHidden, gridRenders >>

\* upload.js handleFiles, for a list of one loadable PDF of n pages.
HandleFiles(n) ==
    /\ nextId < MaxFiles
    /\ uploadedFiles' = addFile(uploadedFiles, fileData(nextId + 1, n))
    /\ allPagesRendered' = FALSE
    /\ globalPageOrder' = << >>
    /\ mergeDisabled' = TRUE
    /\ timers' = timers + 1
    /\ nextId' = nextId + 1
    /\ mergeOut' = NoOutput
    /\ UNCHANGED << currentView, allPagesGrid, pagesGrids, panelHidden,
                    gridRenders, isRendering, pagesToRender, currentIndex,
                    loopPhase, totalToRender, renderedCount, ops >>
    /\ UNCHANGED << deletedPages, ruleText, rulePageCount, ruleOut, mergeRun, upload >>
    /\ emitted' = { "file:added" }

\* upload.js: the setTimeout callback of handleFiles.
UploadTimeout ==
    /\ timers > 0
    /\ timers' = timers - 1
    /\ LET r == renderGrids(uploadedFiles, pagesGrids, gridRenders,
                            LAMBDA id : TRUE)
           p == preparePagesViewDom(uploadedFiles, CurrentLoop)
       IN  /\ globalPageOrder' = p.globalPageOrder
           /\ allPagesGrid' = p.loop.grid
           /\ isRendering' = p.loop.isRendering
           /\ pagesToRender' = p.loop.pagesToRender
           /\ currentIndex' = p.loop.currentIndex
           /\ loopPhase' = p.loop.phase
           /\ totalToRender' = p.loop.totalToRender
           /\ renderedCount' = p.loop.renderedCount
           /\ mergeDisabled' = (mergeDisabled \/ loopStarted(p.loop))
           /\ pagesGrids' = r.grids
           /\ gridRenders' = r.renders
    /\ mergeOut' = NoOutput
    /\ UNCHANGED << uploadedFiles, currentView, allPagesRendered, panelHidden,
                    nextId, ops >>
    /\ UNCHANGED << deletedPages, ruleText, rulePageCount, ruleOut, mergeRun, upload >>
    /\ emitted' = { }

\* views.js: a callback of the Pages loop.
PagesRenderStep ==
    /\ isRendering
    /\ SetLoop(uploadedFiles, pagesLoopStep(uploadedFiles, CurrentLoop), pagesGrids)
    /\ mergeOut' = NoOutput
    /\ UNCHANGED << uploadedFiles, globalPageOrder, currentView,
                    allPagesRendered, timers, nextId, ops >>
    /\ UNCHANGED << deletedPages, ruleText, rulePageCount, ruleOut, mergeRun, upload >>
    /\ emitted' = { }

\* views.js: a callback of a renderFileGrid loop.
GridRenderStep(k) ==
    /\ k \in 1..Len(gridRenders)
    /\ LET r == gridRenders[k]
           s == gridLoopStep(uploadedFiles, pagesGrids[r.fileId], r)
       IN  /\ pagesGrids' = [pagesGrids EXCEPT ![r.fileId] = s.grid]
           /\ gridRenders' = IF s.render.pending = "done"
                             THEN RemoveAt(gridRenders, k)
                             ELSE [gridRenders EXCEPT ![k] = s.render]
    /\ mergeOut' = NoOutput
    /\ UNCHANGED << uploadedFiles, globalPageOrder, currentView,
                    allPagesRendered, allPagesGrid, panelHidden, isRendering,
                    pagesToRender, currentIndex, loopPhase, totalToRender, renderedCount, mergeDisabled,
                    timers, nextId, ops >>
    /\ UNCHANGED << deletedPages, ruleText, rulePageCount, ruleOut, mergeRun, upload >>
    /\ emitted' = { }

\* ------------------------------------------------------------------------
\* views.js / app.js: keeping the two views and the model in step
\* ------------------------------------------------------------------------

\* A DocumentFragment filled by appendChild: for each key the element the
\* Map holds for it (the last one of the grid with that key) is appended;
\* appending an element a second time moves it.  The places of the kept
\* elements of grid, in their new order.
fragmentOrder(grid, keys, keyOf(_)) ==
    LET F[i \in 0..Len(keys)] ==
            IF i = 0 THEN << >>
            ELSE LET k == LastIndex(grid, LAMBDA t : keyOf(t) = keys[i])
                 IN  IF k = 0 THEN F[i - 1]
                     ELSE Append(SelectSeq(F[i - 1], LAMBDA x : x # k), k)
    IN  F[Len(keys)]

reorderGrid(grid, keys, keyOf(_)) ==
    LET places == fragmentOrder(grid, keys, keyOf)
    IN  [i \in 1..Len(places) |-> grid[places[i]]]

thumbKey(t) == [fileId |-> t.fileId, pageIndex |-> t.pageIndex]

\* syncPagesViewOrder: [globalPageOrder, grid]
syncPagesViewOrder(files, grid) ==
    LET order == buildGlobalPageOrder(files)
    IN  [ globalPageOrder |-> order,
          grid |-> reorderGrid(grid, order, thumbKey) ]

\* orderByFile.get(fileId) of syncFilesViewOrder
orderOfFile(order, fileId) ==
    LET mine == SelectSeq(order, LAMBDA e : e.fileId = fileId)
    IN  [i \in 1..Len(mine) |-> mine[i].pageIndex]

\* syncFilesViewOrder: [files, grids]
syncFilesViewOrder(files, order, grids) ==
    LET named(id) == \E i \in 1..Len(order) : order[i].fileId = id
    IN  [ files |-> [i \in 1..Len(files) |->
                        IF named(files[i].id)
                        THEN [files[i] EXCEPT
                                !.pageOrder = orderOfFile(order, files[i].id)]
                        ELSE files[i]],
          grids |-> [id \in FileIds |->
                        IF named(id) /\ hasFile(files, id) /\ Len(grids[id]) > 0
                        THEN reorderGrid(grids[id], orderOfFile(order, id),
                                         LAMBDA t : t.pageIndex)
                        ELSE grids[id]] ]

\* updatePageIdentity: the Pages thumb of the moved page changes owner.
updatePageIdentity(grid, oldFileId, oldIndex, newFileId, newIndex) ==
    LET k == FirstIndex(grid,
                LAMBDA t : t.fileId = oldFileId /\ t.pageIndex = oldIndex)
    IN  IF k = 0 THEN grid
        ELSE [grid EXCEPT ![k].fileId = newFileId, ![k].pageIndex = newIndex]

\* An import that does not raise the target's pageCount.
importPage_NoGrow(files, sourceFileId, pageIndex, targetFileId) ==
    LET sourceFile == getFile(files, sourceFileId)
        targetFile == getFile(files, targetFileId)
        target1 == [targetFile EXCEPT
                      !.importedPages = Append(@,
                            [ newIndex |-> targetFile.pageCount,
                              sourceFileId |-> sourceFileId,
                              sourcePageIndex |-> pageIndex ]),
                      !.pageRotations = Append(@, rotationOf(sourceFile, pageIndex))]
        source1 == [sourceFile EXCEPT
                      !.pageOrder = deletePageOrder(@, pageIndex)]
    IN  putFile(putFile(files, target1), source1)

\* The import both move handlers make: the target document gets a new page
\* index, an import record and the rotation; the source loses the index.
\* (app.js handleCrossFileDrag 235-262, views.js performCrossFileImport
\* 36-71.)  The target's pageOrder is set by the caller.
importPage(files, sourceFileId, pageIndex, targetFileId) ==
    LET sourceFile == getFile(files, sourceFileId)
        targetFile == getFile(files, targetFileId)
        rotation == rotationOf(sourceFile, pageIndex)
        newPageIndex == targetFile.pageCount
        target1 == [targetFile EXCEPT
                      !.pageCount = @ + 1,
                      !.importedPages = Append(@,
                            [ newIndex |-> newPageIndex,
                              sourceFileId |-> sourceFileId,
                              sourcePageIndex |-> pageIndex ]),
                      !.pageRotations = Append(@, rotation)]
        source1 == [sourceFile EXCEPT
                      !.pageOrder = deletePageOrder(@, pageIndex)]
    IN  putFile(putFile(files, target1), source1)

\* performCrossFileImport: [files, thumb, grids]
performCrossFileImport(files, thumb, sourceFileId, targetFileId, grids) ==
    IF ~hasFile(files, sourceFileId) \/ ~hasFile(files, targetFileId)
    THEN [files |-> files, thumb |-> thumb, grids |-> grids]
    ELSE LET pageIndex == thumb.pageIndex
             newPageIndex == getFile(files, targetFileId).pageCount
             files1 == importPage(files, sourceFileId, pageIndex, targetFileId)
             target1 == getFile(files1, targetFileId)
             files2 == putFile(files1,
                         [target1 EXCEPT !.pageOrder = Append(@, newPageIndex)])
             gone == FirstIndex(grids[sourceFileId],
                                LAMBDA t : t.pageIndex = pageIndex)
             sourceGrid == IF gone = 0 THEN grids[sourceFileId]
                           ELSE RemoveAt(grids[sourceFileId], gone)
             targetGrid == IF Len(grids[targetFileId]) > 0
                           THEN Append(grids[targetFileId],
                                       filesThumb(targetFileId, newPageIndex))
                           ELSE grids[targetFileId]
         IN  [ files |-> files2,
               thumb |-> [thumb EXCEPT !.pageIndex = newPageIndex,
                                       !.fileId = targetFileId],
               grids |-> [grids EXCEPT ![sourceFileId] = sourceGrid,
                                       ![targetFileId] = targetGrid] ]

\* A drop that joins another document only between two of its pages.
dropTarget_BetweenOnly(thumbs, at) ==
    IF at > 1 /\ at < Len(thumbs)
       /\ thumbs[at - 1].fileId = thumbs[at + 1].fileId
       /\ thumbs[at - 1].fileId # thumbs[at].fileId
    THEN thumbs[at - 1].fileId ELSE 0

\* The Sortable onEnd of the Pages grid: which document the dropped thumb
\* joins, 0 for none.  thumbs is the grid after the drop, at is the place
\* of the dropped thumb.
dropTarget(thumbs, at) ==
    LET droppedFileId == thumbs[at].fileId
        hasPrev == at > 1
        hasNext == at < Len(thumbs)
    IN  IF hasPrev /\ hasNext
        THEN IF thumbs[at - 1].fileId = thumbs[at + 1].fileId
                /\ thumbs[at - 1].fileId # droppedFileId
             THEN thumbs[at - 1].fileId ELSE 0
        ELSE IF hasPrev /\ thumbs[at - 1].fileId # droppedFileId
        THEN IF ~hasNext THEN thumbs[at - 1].fileId ELSE 0
        ELSE IF hasNext /\ thumbs[at + 1].fileId # droppedFileId
        THEN IF ~hasPrev THEN thumbs[at + 1].fileId ELSE 0
        ELSE 0

\* ------------------------------------------------------------------------
\* handlers/merge.js
\* ------------------------------------------------------------------------

\* resolvePage without the test for a missing source document.
resolvePage_NoSkip(files, file, pageIndex, rotation) ==
    LET k == findImported(file, pageIndex)
    IN  IF k = 0
        THEN << [file |-> file.id, page |-> pageIndex, rotation |-> rotation] >>
        ELSE << [ file |-> file.importedPages[k].sourceFileId,
                  page |-> file.importedPages[k].sourcePageIndex,
                  rotation |-> rotation ] >>

\* One turn of a merge loop: the page handed to copyPages, or nothing when
\* the import's source document is gone.
resolvePage(files, file, pageIndex, rotation) ==
    LET k == findImported(file, pageIndex)
    IN  IF k = 0
        THEN << [file |-> file.id, page |-> pageIndex, rotation |-> rotation] >>
        ELSE IF ~hasFile(files, file.importedPages[k].sourceFileId)
        THEN << >>
        ELSE << [ file |-> file.importedPages[k].sourceFileId,
                  page |-> file.importedPages[k].sourcePageIndex,
                  rotation |-> rotation ] >>

\* The "All Pages" branch of mergePDFs
composeAllPages(files, order) ==
    LET F[i \in 0..Len(order)] ==
            IF i = 0 THEN << >>
            ELSE IF ~hasFile(files, order[i].fileId) THEN F[i - 1]
            ELSE LET file == getFile(files, order[i].fileId)
                 IN  F[i - 1] \o
                     resolvePage(files, file, order[i].pageIndex,
                                 rotationOf(file, order[i].pageIndex))
    IN  F[Len(order)]

\* A composition that takes every document's drag-and-drop order, rule
\* text or not.
pagesToProcess_OrderOnly(file) ==
    [i \in 1..Len(file.pageOrder) |->
        [page |-> file.pageOrder[i], rotation |-> 0]]

pagesToProcess(file) ==
    IF ~trimIsEmpty(file.rules)
    THEN parseRules(file.rules, file.pageCount)
    ELSE [i \in 1..Len(file.pageOrder) |->
            [page |-> file.pageOrder[i], rotation |-> 0]]

\* A composition in which a rule's rotation replaces the stored one.
composeFile_Replace(files, file) ==
    LET rules == pagesToProcess(file)
        F[i \in 0..Len(rules)] ==
            IF i = 0 THEN << >>
            ELSE F[i - 1] \o
                 resolvePage(files, file, rules[i].page,
                             IF rules[i].rotation # 0 THEN rules[i].rotation
                             ELSE rotationOf(file, rules[i].page))
    IN  F[Len(rules)]

composeFile(files, file) ==
    LET rules == pagesToProcess(file)
        F[i \in 0..Len(rules)] ==
            IF i = 0 THEN << >>
            ELSE F[i - 1] \o
                 resolvePage(files, file, rules[i].page,
                             rules[i].rotation + rotationOf(file, rules[i].page))
    IN  F[Len(rules)]

\* The "Files" branch of mergePDFs
composeFiles(files) ==
    LET F[i \in 0..Len(files)] ==
            IF i = 0 THEN << >> ELSE F[i - 1] \o composeFile(files, files[i])
    IN  F[Len(files)]

\* The pages mergePDFs hands to copyPages / renderPageAsImage, in order.
compose(files, order, view) ==
    IF view = "allPages" /\ Len(order) > 0
    THEN composeAllPages(files, order)
    ELSE composeFiles(files)

\* copyPages and getPage reject a page the source document does not have.
isPhysicalPage(files, entry) ==
    /\ hasFile(files, entry.file)
    /\ entry.page \in 0..(getFile(files, entry.file).numPages - 1)

\* mergePDFs: the downloaded document, or the failure the catch reports.
mergeResult(files, order, view) ==
    LET pages == compose(files, order, view)
    IN  IF \A i \in 1..Len(pages) : isPhysicalPage(files, pages[i])
        THEN [status |-> "saved", pages |-> pages]
        ELSE [status |-> "failed", pages |-> << >>]

\* ------------------------------------------------------------------------
\* The user's handlers
\* ------------------------------------------------------------------------

\* The screen has settled: no upload timer and no rendering callback is
\* pending.
screenSettled == timers = 0 /\ ~isRendering /\ gridRenders = << >>

\* A user edit, counted against the bound of the model.  The user of the
\* model edits on a settled screen; uploads, view switches and merges come
\* at any time.
UserEdit == screenSettled /\ ops < MaxOps /\ ops' = ops + 1

LoopUnchanged ==
    UNCHANGED << isRendering, pagesToRender, currentIndex, loopPhase,
                 totalToRender, renderedCount >>

\* A card's grid can be touched: the Files view is shown and the panel open.
gridShown(id) ==
    currentView = "byFile" /\ hasFile(uploadedFiles, id) /\ ~panelHidden[id]

\* views.js toggleFileExpand, from a click on the card header.
ToggleFileExpand(id) ==
    /\ currentView = "byFile"
    /\ hasFile(uploadedFiles, id)
    /\ UserEdit
    /\ panelHidden' = [panelHidden EXCEPT ![id] = ~@]
    /\ LET r == IF panelHidden[id] /\ Len(pagesGrids[id]) = 0
                THEN renderFileGrid(uploadedFiles, pagesGrids, gridRenders, id)
                ELSE [grids |-> pagesGrids, renders |-> gridRenders]
       IN  pagesGrids' = r.grids /\ gridRenders' = r.renders
    /\ mergeOut' = NoOutput
    /\ LoopUnchanged
    /\ UNCHANGED << uploadedFiles, globalPageOrder, currentView,
                    allPagesRendered, allPagesGrid, mergeDisabled, timers,
                    nextId >>
    /\ UNCHANGED << deletedPages, ruleText, rulePageCount, ruleOut, mergeRun, upload >>
    /\ emitted' = { }

\* views.js switchView, from a click on a view button.
SwitchView(view) ==
    /\ Len(uploadedFiles) > 0
    /\ currentView' = view
    /\ IF view = "allPages" /\ Len(allPagesGrid) > 0 /\ ~allPagesRendered
       THEN /\ allPagesRendered' = TRUE
            /\ LoopUnchanged
            /\ UNCHANGED << globalPageOrder, allPagesGrid, mergeDisabled >>
       ELSE IF view = "allPages" /\ ~allPagesRendered
       THEN LET p == preparePagesViewDom(uploadedFiles, CurrentLoop)
            IN  /\ globalPageOrder' = p.globalPageOrder
                /\ allPagesGrid' = p.loop.grid
                /\ isRendering' = p.loop.isRendering
                /\ pagesToRender' = p.loop.pagesToRender
                /\ currentIndex' = p.loop.currentIndex
                /\ loopPhase' = p.loop.phase
                /\ totalToRender' = p.loop.totalToRender
                /\ renderedCount' = p.loop.renderedCount
                /\ mergeDisabled' = (mergeDisabled \/ loopStarted(p.loop))
                /\ UNCHANGED allPagesRendered
       ELSE /\ LoopUnchanged
            /\ UNCHANGED << globalPageOrder, allPagesGrid, allPagesRendered,
                            mergeDisabled >>
    /\ mergeOut' = NoOutput
    /\ UNCHANGED << uploadedFiles, pagesGrids, panelHidden, gridRenders,
                    timers, nextId, ops >>
    /\ UNCHANGED << deletedPages, ruleText, rulePageCount, ruleOut, mergeRun, upload >>
    /\ emitted' = { "view:changed" }

\* views.js setupFilesViewDeleteHandler: the delete button of the thumb at
\* place at of a card's grid.
DeletePageInFilesView(id, at) ==
    /\ gridShown(id)
    /\ at \in 1..Len(pagesGrids[id])
    /\ UserEdit
    /\ LET thumb == pagesGrids[id][at]
           gone == FirstIndex(allPagesGrid,
                      LAMBDA t : t.fileId = thumb.fileId
                                 /\ t.pageIndex = thumb.pageIndex)
       IN  /\ hasFile(uploadedFiles, thumb.fileId)
           /\ pagesGrids' = [pagesGrids EXCEPT ![id] = RemoveAt(@, at)]
           /\ uploadedFiles' =
                deletePage(uploadedFiles, thumb.fileId, thumb.pageIndex)
           /\ globalPageOrder' =
                deletePageGlobal(globalPageOrder, thumb.fileId, thumb.pageIndex)
           /\ allPagesGrid' = IF gone = 0 THEN allPagesGrid
                              ELSE RemoveAt(allPagesGrid, gone)
    /\ mergeOut' = NoOutput
    /\ LoopUnchanged
    /\ UNCHANGED << currentView, allPagesRendered, panelHidden, gridRenders,
                    mergeDisabled, timers, nextId >>
    /\ deletedPages' = deletedPages \cup
         { [fileId |-> pagesGrids[id][at].fileId, pageIndex |-> pagesGrids[id][at].pageIndex] }
    /\ UNCHANGED << ruleVars, mergeRun, upload >>
    /\ emitted' = { "page:deleted" }

\* views.js setupPagesViewDeleteHandler: the delete button of the thumb at
\* place at of the Pages grid.
DeletePageInPagesView(at) ==
    /\ currentView = "allPages"
    /\ at \in 1..Len(allPagesGrid)
    /\ UserEdit
    /\ LET thumb == allPagesGrid[at]
           card == thumb.fileId
           gone == FirstIndex(pagesGrids[card],
                      LAMBDA t : t.pageIndex = thumb.pageIndex)
       IN  /\ allPagesGrid' = RemoveAt(allPagesGrid, at)
           /\ uploadedFiles' =
                deletePage(uploadedFiles, thumb.fileId, thumb.pageIndex)
           /\ globalPageOrder' =
                deletePageGlobal(globalPageOrder, thumb.fileId, thumb.pageIndex)
           /\ pagesGrids' = IF hasFile(uploadedFiles, card) /\ gone # 0
                            THEN [pagesGrids EXCEPT ![card] = RemoveAt(@, gone)]
                            ELSE pagesGrids
    /\ mergeOut' = NoOutput
    /\ LoopUnchanged
    /\ UNCHANGED << currentView, allPagesRendered, panelHidden, gridRenders,
                    mergeDisabled, timers, nextId >>
    /\ deletedPages' = deletedPages \cup
         { [fileId |-> allPagesGrid[at].fileId, pageIndex |-> allPagesGrid[at].pageIndex] }
    /\ UNCHANGED << ruleVars, mergeRun, upload >>
    /\ emitted' = IF hasFile(uploadedFiles, allPagesGrid[at].fileId)
                   THEN { "page:deleted" } ELSE { }

\* The onRotate closures of views.js: f.pageRotations[pi] =
\* (f.pageRotations[pi] + 90) % 360, on the file object the thumb was
\* created for.
rotateThumb(files, thumb) ==
    IF ~hasFile(files, thumb.cFile) THEN files
    ELSE LET f == getFile(files, thumb.cFile)
         IN  putFile(files,
                [f EXCEPT !.pageRotations[thumb.cPage + 1] =
                            (rotationOf(f, thumb.cPage) + 90) % 360])

\* The rotate button of a thumb of a card's grid.
RotateInFilesView(id, at) ==
    /\ gridShown(id)
    /\ at \in 1..Len(pagesGrids[id])
    /\ UserEdit
    /\ uploadedFiles' = rotateThumb(uploadedFiles, pagesGrids[id][at])
    /\ mergeOut' = NoOutput
    /\ LoopUnchanged
    /\ UNCHANGED << globalPageOrder, currentView, allPagesRendered,
                    allPagesGrid, pagesGrids, panelHidden, gridRenders,
                    mergeDisabled, timers, nextId >>
    /\ UNCHANGED << deletedPages, ruleText, rulePageCount, ruleOut, mergeRun, upload >>
    /\ emitted' = { "page:rotated" }

\* The rotate button of a thumb of the Pages grid.
RotateInPagesView(at) ==
    /\ currentView = "allPages"
    /\ at \in 1..Len(allPagesGrid)
    /\ UserEdit
    /\ uploadedFiles' = rotateThumb(uploadedFiles, allPagesGrid[at])
    /\ mergeOut' = NoOutput
    /\ LoopUnchanged
    /\ UNCHANGED << globalPageOrder, currentView, allPagesRendered,
                    allPagesGrid, pagesGrids, panelHidden, gridRenders,
                    mergeDisabled, timers, nextId >>
    /\ UNCHANGED << deletedPages, ruleText, rulePageCount, ruleOut, mergeRun, upload >>
    /\ emitted' = { "page:rotated" }

pageIndexes(grid) == [i \in 1..Len(grid) |-> grid[i].pageIndex]

\* app.js handleCrossFileDrag with evt.from === evt.to: the thumb at place
\* from of a card's grid is dropped at place to of the same grid.
ReorderInFile(id, from, to) ==
    /\ gridShown(id)
    /\ from \in 1..Len(pagesGrids[id])
    /\ to \in 1..Len(pagesGrids[id])
    /\ UserEdit
    /\ LET grid == MoveItem(pagesGrids[id], from, to)
           file == getFile(uploadedFiles, id)
           files == putFile(uploadedFiles,
                       [file EXCEPT !.pageOrder = pageIndexes(grid)])
           sync == syncPagesViewOrder(files, allPagesGrid)
       IN  /\ pagesGrids' = [pagesGrids EXCEPT ![id] = grid]
           /\ uploadedFiles' = files
           /\ globalPageOrder' = sync.globalPageOrder
           /\ allPagesGrid' = sync.grid
    /\ mergeOut' = NoOutput
    /\ LoopUnchanged
    /\ UNCHANGED << currentView, allPagesRendered, panelHidden, gridRenders,
                    mergeDisabled, timers, nextId >>
    /\ UNCHANGED << deletedPages, ruleText, rulePageCount, ruleOut, mergeRun, upload >>
    /\ emitted' = { }

\* app.js handleCrossFileDrag across cards: [files, grids, globalPageOrder,
\* grid] after the thumb at place from of card sourceFileId was dropped at
\* place to of card targetFileId.
handleCrossFileDrag(files, grids, pagesGrid, sourceFileId, from, targetFileId, to) ==
    IF ~hasFile(files, sourceFileId) \/ ~hasFile(files, targetFileId)
    THEN [ files |-> files, grids |-> grids,
           globalPageOrder |-> globalPageOrder, grid |-> pagesGrid ]
    ELSE
    LET item == grids[sourceFileId][from]
        pageIndex == item.pageIndex
        newPageIndex == getFile(files, targetFileId).pageCount
        files1 == importPage(files, sourceFileId, pageIndex, targetFileId)
        moved == [item EXCEPT !.pageIndex = newPageIndex, !.fileId = targetFileId]
        targetGrid == InsertAt(grids[targetFileId], to, moved)
        files2 == putFile(files1,
                    [getFile(files1, targetFileId) EXCEPT
                        !.pageOrder = pageIndexes(targetGrid)])
        sync == syncPagesViewOrder(files2,
                    updatePageIdentity(pagesGrid, sourceFileId, pageIndex,
                                       targetFileId, newPageIndex))
    IN  [ files |-> files2,
          grids |-> [grids EXCEPT ![sourceFileId] = RemoveAt(@, from),
                                  ![targetFileId] = targetGrid],
          globalPageOrder |-> sync.globalPageOrder,
          grid |-> sync.grid ]

MoveInFilesView(sourceFileId, from, targetFileId, to) ==
    /\ sourceFileId # targetFileId
    /\ gridShown(sourceFileId)
    /\ gridShown(targetFileId)
    /\ from \in 1..Len(pagesGrids[sourceFileId])
    /\ to \in 1..(Len(pagesGrids[targetFileId]) + 1)
    /\ UserEdit
    /\ LET r == handleCrossFileDrag(uploadedFiles, pagesGrids, allPagesGrid,
                                    sourceFileId, from, targetFileId, to)
       IN  /\ uploadedFiles' = r.files
           /\ pagesGrids' = r.grids
           /\ globalPageOrder' = r.globalPageOrder
           /\ allPagesGrid' = r.grid
    /\ mergeOut' = NoOutput
    /\ LoopUnchanged
    /\ UNCHANGED << currentView, allPagesRendered, panelHidden, gridRenders,
                    mergeDisabled, timers, nextId >>
    /\ UNCHANGED << deletedPages, ruleText, rulePageCount, ruleOut, mergeRun, upload >>
    /\ emitted' = { }

\* views.js: the Sortable onEnd of the Pages grid, after the thumb at place
\* from was dropped at place to: [files, grids, globalPageOrder, grid].
pagesDragEnd(files, grids, pagesGrid, from, to) ==
    LET thumbs == MoveItem(pagesGrid, from, to)
        targetFileId == dropTarget(thumbs, to)
        r == IF targetFileId # 0
             THEN performCrossFileImport(files, thumbs[to], thumbs[to].fileId,
                                         targetFileId, grids)
             ELSE [files |-> files, thumb |-> thumbs[to], grids |-> grids]
        thumbs1 == [thumbs EXCEPT ![to] = r.thumb]
        finalOrder == [i \in 1..Len(thumbs1) |-> thumbKey(thumbs1[i])]
        sync == syncFilesViewOrder(r.files, finalOrder, r.grids)
    IN  [ files |-> sync.files, grids |-> sync.grids,
          globalPageOrder |-> finalOrder, grid |-> thumbs1 ]

DragInPagesView(from, to) ==
    /\ currentView = "allPages"
    /\ from \in 1..Len(allPagesGrid)
    /\ to \in 1..Len(allPagesGrid)
    /\ UserEdit
    /\ LET r == pagesDragEnd(uploadedFiles, pagesGrids, allPagesGrid, from, to)
       IN  /\ uploadedFiles' = r.files
           /\ pagesGrids' = r.grids
           /\ globalPageOrder' = r.globalPageOrder
           /\ allPagesGrid' = r.grid
    /\ mergeOut' = NoOutput
    /\ LoopUnchanged
    /\ UNCHANGED << currentView, allPagesRendered, panelHidden, gridRenders,
                    mergeDisabled, timers, nextId >>
    /\ UNCHANGED << deletedPages, ruleText, rulePageCount, ruleOut, mergeRun, upload >>
    /\ emitted' = { }

\* app.js deleteFile, from the delete button of a card.
DeleteFile(id) ==
    /\ currentView = "byFile"
    /\ hasFile(uploadedFiles, id)
    /\ UserEdit
    /\ uploadedFiles' = removeFile(uploadedFiles, id)
    /\ globalPageOrder' = removeFileGlobal(globalPageOrder, id)
    /\ pagesGrids' = [pagesGrids EXCEPT ![id] = << >>]
    /\ panelHidden' = [panelHidden EXCEPT ![id] = TRUE]
    /\ gridRenders' = SelectSeq(gridRenders, LAMBDA r : r.fileId # id)
    /\ allPagesGrid' = SelectSeq(allPagesGrid, LAMBDA t : t.fileId # id)
    /\ mergeOut' = NoOutput
    /\ LoopUnchanged
    /\ UNCHANGED << currentView, allPagesRendered, mergeDisabled, timers, nextId >>
    /\ UNCHANGED << deletedPages, ruleText, rulePageCount, ruleOut, mergeRun, upload >>
    /\ emitted' = { "file:removed" }

fileIdsOf(files) == [i \in 1..Len(files) |-> files[i].id]

\* app.js: the Sortable onEnd of the file list, after the card at place
\* from was dropped at place to.
ReorderFiles(from, to) ==
    /\ currentView = "byFile"
    /\ from \in 1..Len(uploadedFiles)
    /\ to \in 1..Len(uploadedFiles)
    /\ UserEdit
    /\ LET files == reorderFiles(uploadedFiles,
                                 MoveItem(fileIdsOf(uploadedFiles), from, to))
           sync == syncPagesViewOrder(files, allPagesGrid)
       IN  /\ uploadedFiles' = files
           /\ globalPageOrder' = sync.globalPageOrder
           /\ allPagesGrid' = sync.grid
    /\ allPagesRendered' = FALSE
    /\ mergeOut' = NoOutput
    /\ LoopUnchanged
    /\ UNCHANGED << currentView, pagesGrids, panelHidden, gridRenders,
                    mergeDisabled, timers, nextId >>
    /\ UNCHANGED << deletedPages, ruleText, rulePageCount, ruleOut, mergeRun, upload >>
    /\ emitted' = { "files:reordered" }

updateFileRules(files, fileId, rules) ==
    IF ~hasFile(files, fileId) THEN files
    ELSE putFile(files, [getFile(files, fileId) EXCEPT !.rules = rules])

\* The rule texts a user types in the model.
RuleTexts == { << "1" >>, << "2", ".", "." >>, << "1", ">" >> }

\* app.js onRulesChange, from the change event of a card's rules input.
OnRulesChange(id, rules) ==
    /\ currentView = "byFile"
    /\ hasFile(uploadedFiles, id)
    /\ getFile(uploadedFiles, id).rules # rules
    /\ UserEdit
    /\ uploadedFiles' = updateFileRules(uploadedFiles, id, rules)
    /\ mergeOut' = NoOutput
    /\ LoopUnchanged
    /\ UNCHANGED << globalPageOrder, currentView, allPagesRendered,
                    allPagesGrid, pagesGrids, panelHidden, gridRenders,
                    mergeDisabled, timers, nextId >>
    /\ UNCHANGED << deletedPages, ruleText, rulePageCount, ruleOut, mergeRun, upload >>
    /\ emitted' = { "file:rulesUpdated" }

\* A merge that clears globalPageOrder.
MergePDFs_Clearing ==
    /\ ~mergeDisabled
    /\ Len(uploadedFiles) > 0
    /\ mergeOut' = mergeResult(uploadedFiles, globalPageOrder, currentView)
    /\ globalPageOrder' = << >>
    /\ LoopUnchanged
    /\ UNCHANGED << uploadedFiles, currentView, allPagesRendered, allPagesGrid,
                    pagesGrids, panelHidden, gridRenders, mergeDisabled,
                    timers, nextId, ops, deletedPages, ruleText,
                    rulePageCount, ruleOut, mergeRun, upload >>
    /\ emitted' = { }

\* merge.js mergePDFs, from a click on the merge button.
MergePDFs ==
    /\ ~mergeDisabled
    /\ Len(uploadedFiles) > 0
    /\ mergeOut' = mergeResult(uploadedFiles, globalPageOrder, currentView)
    /\ LoopUnchanged
    /\ UNCHANGED << uploadedFiles, globalPageOrder, currentView,
                    allPagesRendered, allPagesGrid, pagesGrids, panelHidden,
                    gridRenders, mergeDisabled, timers, nextId, ops >>
    /\ UNCHANGED << deletedPages, ruleText, rulePageCount, ruleOut, mergeRun, upload >>
    /\ emitted' = { }

Next ==
    \/ \E n \in 1..MaxPages : HandleFiles(n)
    \/ UploadTimeout
    \/ PagesRenderStep
    \/ \E k \in 1..Len(gridRenders) : GridRenderStep(k)
    \/ \E id \in FileIds : ToggleFileExpand(id)
    \/ \E view \in { "byFile", "allPages" } : SwitchView(view)
    \/ \E id \in FileIds : \E at \in 1..Len(pagesGrids[id]) :
            DeletePageInFilesView(id, at)
    \/ \E at \in 1..Len(allPagesGrid) : DeletePageInPagesView(at)
    \/ \E id \in FileIds : \E at \in 1..Len(pagesGrids[id]) :
            RotateInFilesView(id, at)
    \/ \E at \in 1..Len(allPagesGrid) : RotateInPagesView(at)
    \/ \E id \in FileIds : \E from, to \in 1..Len(pagesGrids[id]) :
            ReorderInFile(id, from, to)
    \/ \E s, t \in FileIds :
        \E from \in 1..Len(pagesGrids[s]) : \E to \in 1..(Len(pagesGrids[t]) + 1) :
            MoveInFilesView(s, from, t, to)
    \/ \E from, to \in 1..Len(allPagesGrid) : DragInPagesView(from, to)
    \/ \E id \in FileIds : DeleteFile(id)
    \/ \E from, to \in 1..Len(uploadedFiles) : ReorderFiles(from, to)
    \/ \E id \in FileIds : \E rules \in RuleTexts : OnRulesChange(id, rules)
    \/ MergePDFs

Spec == Init /\ [][Next]_vars

\* ------------------------------------------------------------------------
\* parseRules on its own: every rule text over RuleChars of at most
\* MaxRuleLen characters, for every pageCount up to MaxCount.
\* ------------------------------------------------------------------------

\* ------------------------------------------------------------------------
\* The application under fair scheduling: a pending setTimeout callback
\* runs, and so does the next callback of a rendering loop.  Here the
\* delete button of a card is also pressed between an upload and its
\* delayed callback, before any loop has started.
\* ------------------------------------------------------------------------

\* app.js deleteFile while the callback of an upload is pending.
DeleteFilePending(id) ==
    /\ currentView = "byFile"
    /\ hasFile(uploadedFiles, id)
    /\ timers > 0 /\ ~isRendering /\ gridRenders = << >>
    /\ ops < MaxOps
    /\ ops' = ops + 1
    /\ uploadedFiles' = removeFile(uploadedFiles, id)
    /\ globalPageOrder' = removeFileGlobal(globalPageOrder, id)
    /\ pagesGrids' = [pagesGrids EXCEPT ![id] = << >>]
    /\ panelHidden' = [panelHidden EXCEPT ![id] = TRUE]
    /\ allPagesGrid' = SelectSeq(allPagesGrid, LAMBDA t : t.fileId # id)
    /\ mergeOut' = NoOutput
    /\ LoopUnchanged
    /\ UNCHANGED << currentView, allPagesRendered, gridRenders, mergeDisabled,
                    timers, nextId >>
    /\ UNCHANGED << deletedPages, ruleText, rulePageCount, ruleOut, mergeRun, upload >>
    /\ emitted' = { "file:removed" }

FairNext ==
    \/ Next
    \/ \E id \in FileIds : DeleteFilePending(id)

FairSpec ==
    /\ Init
    /\ [][FairNext]_vars
    /\ WF_vars(UploadTimeout)
    /\ WF_vars(PagesRenderStep)
    /\ WF_vars(\E k \in 1..Len(gridRenders) : GridRenderStep(k))

\* ------------------------------------------------------------------------
\* handleFiles file by file.  upload.js awaits the load of every file of
\* the list, and the answer to the password modal; the delayed callback and
\* the rendering loops run between the awaits.  loadPdfDocument as this
\* repository has it takes no password, and handleFiles hands it one: a
\* load with a password may succeed, raise PasswordException again, or
\* fail otherwise.
\* ------------------------------------------------------------------------

\* The files of a FileList: their type, what loading them does, and their
\* pages.
UploadFiles ==
    { [type |-> "other", load |-> "ok", pages |-> 1],
      [type |-> "pdf", load |-> "broken", pages |-> 1],
      [type |-> "pdf", load |-> "protected", pages |-> 1] }
    \cup { [type |-> "pdf", load |-> "ok", pages |-> n] : n \in 1..MaxPages }

UploadLists == UNION { [1..n -> UploadFiles] : n \in 1..MaxList }

\* Array.from(fileList).filter(f => f.type === 'application/pdf')
pdfFiles(fileList) == SelectSeq(fileList, LAMBDA f : f.type = "pdf")

\* The files of a list that can come to be registered.
loadable(files) == SelectSeq(files, LAMBDA f : f.load # "broken")

\* A for-of loop that ends with the file in hand.
nextFile_Stop(u) == NoUpload

\* The for-of loop goes on to the next file, or ends.
nextFile(u) ==
    IF u.at = Len(u.files) THEN NoUpload
    ELSE [u EXCEPT !.phase = "load", !.at = @ + 1, !.password = FALSE,
                   !.tries = 0]

UploadUnchanged ==
    /\ mergeOut' = NoOutput
    /\ LoopUnchanged
    /\ UNCHANGED << currentView, allPagesGrid, pagesGrids, panelHidden,
                    gridRenders, deletedPages, ruleVars, mergeRun >>

\* state.addFile and showRenderProgress for a loaded file of n pages.
FileRegistered(n) ==
    /\ uploadedFiles' = addFile(uploadedFiles, fileData(nextId + 1, n))
    /\ allPagesRendered' = FALSE
    /\ globalPageOrder' = << >>
    /\ mergeDisabled' = TRUE
    /\ nextId' = nextId + 1
    /\ emitted' = { "file:added" }

FileSkipped ==
    /\ UNCHANGED << uploadedFiles, allPagesRendered, globalPageOrder,
                    mergeDisabled, nextId >>
    /\ emitted' = { }

\* The loop is done with the file in hand; after the last one the delayed
\* callback is set.
FileDone ==
    /\ upload' = nextFile(upload)
    /\ timers' = IF nextFile(upload).phase = "idle" THEN timers + 1 ELSE timers

StartUpload(fileList) ==
    /\ upload.phase = "idle"
    /\ ops < MaxUploads
    /\ Len(pdfFiles(fileList)) > 0
    /\ Len(loadable(pdfFiles(fileList))) <= MaxFiles - nextId
    /\ ops' = ops + 1
    /\ upload' = [ phase |-> "load", files |-> pdfFiles(fileList), at |-> 1,
                   password |-> FALSE, tries |-> 0, start |-> uploadedFiles ]
    /\ FileSkipped
    /\ UploadUnchanged
    /\ UNCHANGED timers

\* The first loadPdfDocument of the file in hand.
LoadFile ==
    /\ upload.phase = "load"
    /\ ~upload.password
    /\ LET f == upload.files[upload.at]
       IN  \/ f.load = "ok" /\ FileRegistered(f.pages) /\ FileDone
           \/ f.load = "broken" /\ FileSkipped /\ FileDone
           \/ /\ f.load = "protected"
              /\ FileSkipped
              /\ upload' = [upload EXCEPT !.phase = "modal"]
              /\ UNCHANGED timers
    /\ UploadUnchanged
    /\ UNCHANGED ops

\* showPasswordModal resolves: a password, or null.
AnswerModal(answer) ==
    /\ upload.phase = "modal"
    /\ \/ /\ answer = "cancel"
          /\ FileDone
       \/ /\ answer = "password"
          /\ upload.tries < MaxTries
          /\ upload' = [upload EXCEPT !.phase = "load", !.password = TRUE,
                                      !.tries = @ + 1]
          /\ UNCHANGED timers
    /\ FileSkipped
    /\ UploadUnchanged
    /\ UNCHANGED ops

\* loadPdfDocument with the password entered.
RetryLoad(outcome) ==
    /\ upload.phase = "load"
    /\ upload.password
    /\ \/ /\ outcome = "loaded"
          /\ FileRegistered(upload.files[upload.at].pages)
          /\ FileDone
       \/ /\ outcome = "PasswordException"
          /\ FileSkipped
          /\ upload' = [upload EXCEPT !.phase = "modal"]
          /\ UNCHANGED timers
       \/ /\ outcome = "error"
          /\ FileSkipped
          /\ FileDone
    /\ UploadUnchanged
    /\ UNCHANGED ops

UploadNext ==
    \/ \E fileList \in UploadLists : StartUpload(fileList)
    \/ LoadFile
    \/ \E answer \in { "password", "cancel" } : AnswerModal(answer)
    \/ \E outcome \in { "loaded", "PasswordException", "error" } :
            RetryLoad(outcome)
    \/ UploadTimeout
    \/ PagesRenderStep
    \/ \E k \in 1..Len(gridRenders) : GridRenderStep(k)

UploadSpec == Init /\ [][UploadNext]_vars

\* The characters of the rule syntax the texts are made of, and one that is
\* not of the syntax.
RuleChars == { "1", "2", "3", "-", ".", ",", ">", "V", "<", " ", "x" }

RulesInit ==
    /\ Init!1 /\ Init!2 /\ Init!3 /\ Init!4 /\ Init!5 /\ Init!6 /\ Init!7
    /\ Init!8 /\ Init!9 /\ Init!10 /\ Init!11 /\ Init!12 /\ Init!13
    /\ Init!14 /\ Init!15 /\ Init!16 /\ Init!17 /\ Init!18 /\ Init!22
    /\ Init!23 /\ Init!24 /\ Init!25 /\ Init!26
    /\ ruleText = << >>
    /\ rulePageCount \in 1..MaxCount
    /\ ruleOut = parseRules(<< >>, rulePageCount)

\* One more character is typed and the text is parsed.
TypeRule(c) ==
    /\ Len(ruleText) < MaxRuleLen
    /\ ruleText' = Append(ruleText, c)
    /\ ruleOut' = parseRules(ruleText', rulePageCount)
    /\ UNCHANGED << uploadedFiles, globalPageOrder, currentView,
                    allPagesRendered, allPagesGrid, pagesGrids, panelHidden,
                    gridRenders, isRendering, pagesToRender, currentIndex,
                    loopPhase, totalToRender, renderedCount, mergeDisabled, timers, nextId, ops, mergeOut,
                    deletedPages, rulePageCount, mergeRun, emitted, upload >>

RulesNext == \E c \in RuleChars : TypeRule(c)

RulesSpec == RulesInit /\ [][RulesNext]_vars

\* ------------------------------------------------------------------------
\* The functions that change the working set, called directly: the
\* exports of state.js and the import of views.js, with any arguments, up
\* to MaxCalls calls in a row.
\* ------------------------------------------------------------------------

\* The arguments: the ids given out and one that never is; the page
\* indexes a document can have; the quarter turns to the right and left.
AnyFileId == 0..MaxFiles

RotateDegrees == { 90, -90 }

StateCall ==
    /\ ops < MaxCalls
    /\ ops' = ops + 1
    /\ UNCHANGED << currentView, allPagesGrid, pagesGrids, panelHidden,
                    gridRenders, isRendering, pagesToRender, currentIndex,
                    loopPhase, totalToRender, renderedCount, mergeDisabled, timers, mergeOut, deletedPages,
                    ruleText, rulePageCount, ruleOut, upload >>

CallAddFile(n) ==
    /\ nextId < MaxFiles
    /\ StateCall
    /\ uploadedFiles' = addFile(uploadedFiles, fileData(nextId + 1, n))
    /\ allPagesRendered' = FALSE
    /\ globalPageOrder' = << >>
    /\ nextId' = nextId + 1
    /\ emitted' = { "file:added" }

CallRemoveFile(fileId) ==
    /\ StateCall
    /\ uploadedFiles' = removeFile(uploadedFiles, fileId)
    /\ globalPageOrder' = removeFileGlobal(globalPageOrder, fileId)
    /\ UNCHANGED << allPagesRendered, nextId >>
    /\ emitted' = { "file:removed" }

CallDeletePage(fileId, pageIndex) ==
    /\ StateCall
    /\ uploadedFiles' = deletePage(uploadedFiles, fileId, pageIndex)
    /\ globalPageOrder' =
            IF hasFile(uploadedFiles, fileId)
            THEN deletePageGlobal(globalPageOrder, fileId, pageIndex)
            ELSE globalPageOrder
    /\ UNCHANGED << allPagesRendered, nextId >>
    /\ emitted' = IF hasFile(uploadedFiles, fileId)
                   THEN { "page:deleted" } ELSE { }

CallRotatePage(fileId, pageIndex, degrees) ==
    /\ hasFile(uploadedFiles, fileId) =>
            pageIndex < getFile(uploadedFiles, fileId).pageCount
    /\ StateCall
    /\ uploadedFiles' = rotatePage(uploadedFiles, fileId, pageIndex, degrees)
    /\ UNCHANGED << globalPageOrder, allPagesRendered, nextId >>
    /\ emitted' = IF hasFile(uploadedFiles, fileId)
                   THEN { "page:rotated" } ELSE { }

CallBuildGlobalPageOrder ==
    /\ StateCall
    /\ globalPageOrder' = buildGlobalPageOrder(uploadedFiles)
    /\ UNCHANGED << uploadedFiles, allPagesRendered, nextId >>
    /\ emitted' = { }

\* performCrossFileImport for the thumb of a page of the source document.
CallImport(sourceFileId, at, targetFileId) ==
    /\ sourceFileId # targetFileId
    /\ hasFile(uploadedFiles, sourceFileId)
    /\ hasFile(uploadedFiles, targetFileId)
    /\ at \in 1..Len(getFile(uploadedFiles, sourceFileId).pageOrder)
    /\ StateCall
    /\ uploadedFiles' =
            performCrossFileImport(
                uploadedFiles,
                pagesThumb(sourceFileId,
                           getFile(uploadedFiles, sourceFileId).pageOrder[at],
                           TRUE),
                sourceFileId, targetFileId, pagesGrids).files
    /\ UNCHANGED << globalPageOrder, allPagesRendered, nextId >>
    /\ emitted' = { }

\* The arrays of ids reorderFiles is called with: any ids, none twice.
FileIdLists ==
    { ids \in UNION { [1..n -> AnyFileId] : n \in 0..(MaxFiles + 1) } :
        \A i \in 1..Len(ids) : \A j \in 1..Len(ids) :
            i # j => ids[i] # ids[j] }

CallReorderFiles(newFileIds) ==
    /\ StateCall
    /\ uploadedFiles' = reorderFiles(uploadedFiles, newFileIds)
    /\ allPagesRendered' = FALSE
    /\ globalPageOrder' = << >>
    /\ UNCHANGED nextId
    /\ emitted' = { "files:reordered" }

StateNext ==
    \/ \E n \in 1..MaxPages : CallAddFile(n) /\ UNCHANGED mergeRun
    \/ \E fileId \in AnyFileId : CallRemoveFile(fileId) /\ UNCHANGED mergeRun
    \/ \E fileId \in AnyFileId : \E pageIndex \in 0..MaxPages :
            CallDeletePage(fileId, pageIndex) /\ UNCHANGED mergeRun
    \/ \E fileId \in AnyFileId : \E pageIndex \in 0..MaxPages :
       \E degrees \in RotateDegrees :
            CallRotatePage(fileId, pageIndex, degrees) /\ UNCHANGED mergeRun
    \/ CallBuildGlobalPageOrder /\ UNCHANGED mergeRun
    \/ \E newFileIds \in FileIdLists :
            CallReorderFiles(newFileIds) /\ UNCHANGED mergeRun
    \/ \E s \in FileIds : \E t \in FileIds :
       \E at \in 1..(MaxPages + 1) : CallImport(s, at, t) /\ UNCHANGED mergeRun

StateSpec == Init /\ [][StateNext]_vars

\* ------------------------------------------------------------------------
\* mergePDFs page by page.  The loops of merge.js await the copy of every
\* page they emit; between two awaits the functions above may run.  The
\* for-of loops walk the array object they started on: globalPageOrder as
\* it was (every function that changes it assigns a new array), and the
\* uploadedFiles array, which addFile pushes to and removeFile replaces.
\* The fields of a file are read when its turn comes.
\* ------------------------------------------------------------------------

\* The file object behind an id of the walked array: the one of the
\* working set, or the one removeFile has taken out of it.
runFile(run, files, fileId) ==
    IF hasFile(files, fileId) THEN getFile(files, fileId)
    ELSE CHOOSE f \in run.gone : f.id = fileId

\* The "All Pages" loop up to its next await: the entries it skips, the
\* page it emits, the entries left.
RECURSIVE orderScan(_, _)
orderScan(files, order) ==
    IF order = << >>
    THEN [order |-> << >>, cur |-> 0, rules |-> << >>, array |-> << >>,
          emit |-> << >>]
    ELSE LET e == Head(order)
             emit == IF ~hasFile(files, e.fileId) THEN << >>
                     ELSE resolvePage(files, getFile(files, e.fileId),
                                      e.pageIndex,
                                      rotationOf(getFile(files, e.fileId),
                                                 e.pageIndex))
         IN  IF emit = << >> THEN orderScan(files, Tail(order))
             ELSE [order |-> Tail(order), cur |-> 0, rules |-> << >>,
                   array |-> << >>, emit |-> emit]

\* The "Files" loops up to their next await: cur is the file of the inner
\* loop, rules what is left of its pagesToProcess, array the files left.
RECURSIVE filesScan(_, _, _, _, _)
filesScan(run, files, cur, rules, array) ==
    IF rules # << >>
    THEN LET file == runFile(run, files, cur)
             emit == resolvePage(files, file, Head(rules).page,
                                 Head(rules).rotation
                                   + rotationOf(file, Head(rules).page))
         IN  IF emit = << >>
             THEN filesScan(run, files, cur, Tail(rules), array)
             ELSE [order |-> << >>, cur |-> cur, rules |-> Tail(rules),
                   array |-> array, emit |-> emit]
    ELSE IF array = << >>
    THEN [order |-> << >>, cur |-> 0, rules |-> << >>, array |-> << >>,
          emit |-> << >>]
    ELSE filesScan(run, files, Head(array),
                   pagesToProcess(runFile(run, files, Head(array))),
                   Tail(array))

\* copyPages rejects a page the source document does not have.
runPhysical(run, files, entry) ==
    entry.page \in 0..(runFile(run, files, entry.file).numPages - 1)

runEnd(run, status) ==
    [phase |-> "done", status |-> status, out |-> run.out, seen |-> run.seen]

MergeUnchanged ==
    UNCHANGED << uploadedFiles, globalPageOrder, currentView,
                 allPagesRendered, allPagesGrid, pagesGrids, panelHidden,
                 gridRenders, isRendering, pagesToRender, currentIndex,
                 loopPhase, totalToRender, renderedCount, mergeDisabled, timers, nextId, ops, mergeOut,
                 deletedPages, ruleText, rulePageCount, ruleOut, upload >>

\* The run after the loop has gone on to its next await, or to the save
\* or the catch.
runStep(run, files) ==
    LET scan == IF run.branch = "allPages"
                THEN orderScan(files, run.order)
                ELSE filesScan(run, files, run.cur, run.rules, run.array)
    IN  IF scan.emit = << >> THEN runEnd(run, "saved")
        ELSE IF ~runPhysical(run, files, scan.emit[1])
        THEN runEnd(run, "failed")
        ELSE [run EXCEPT !.order = scan.order, !.cur = scan.cur,
                         !.rules = scan.rules, !.array = scan.array,
                         !.out = @ \o scan.emit]

\* mergePDFs from the creation of the output document, where it chooses
\* its branch, to the first await of the loop.  seen collects what compose
\* makes of the working set at each instant of the run.
MergeStart ==
    /\ mergeRun.phase = "idle"
    /\ Len(uploadedFiles) > 0
    /\ mergeRun' = runStep(
        [ phase |-> "running",
          branch |-> IF currentView = "allPages" /\ Len(globalPageOrder) > 0
                     THEN "allPages" ELSE "files",
          order |-> globalPageOrder,
          cur |-> 0,
          rules |-> << >>,
          array |-> fileIdsOf(uploadedFiles),
          aliased |-> TRUE,
          gone |-> { },
          out |-> << >>,
          seen |-> { compose(uploadedFiles, globalPageOrder, currentView) } ],
        uploadedFiles)
    /\ MergeUnchanged
    /\ emitted' = { }

\* From one await of the loop to the next, or to the save or the catch.
MergeStep ==
    /\ mergeRun.phase = "running"
    /\ mergeRun' = runStep(mergeRun, uploadedFiles)
    /\ MergeUnchanged
    /\ emitted' = { }

\* What a call between two awaits means for the run.
MergeTracks(kind) ==
    /\ mergeRun.phase # "done"
    /\ ops < MaxRunCalls
    /\ mergeRun' =
        IF mergeRun.phase = "idle" THEN mergeRun
        ELSE [mergeRun EXCEPT
                !.seen = @ \cup { compose(uploadedFiles', globalPageOrder',
                                          currentView) },
                !.gone = @ \cup { uploadedFiles[i] :
                                    i \in { k \in 1..Len(uploadedFiles) :
                                            ~hasFile(uploadedFiles',
                                                     uploadedFiles[k].id) } },
                !.aliased = @ /\ kind # "remove",
                !.array = IF kind = "add" /\ mergeRun.aliased
                             /\ mergeRun.branch = "files"
                          THEN Append(@, nextId') ELSE @]

\* state.js setView, before the merge
CallSetView(view) ==
    /\ mergeRun.phase = "idle"
    /\ currentView # view
    /\ ops < MaxRunCalls
    /\ ops' = ops + 1
    /\ currentView' = view
    /\ UNCHANGED << uploadedFiles, globalPageOrder, allPagesRendered,
                    allPagesGrid, pagesGrids, panelHidden, gridRenders,
                    isRendering, pagesToRender, currentIndex, loopPhase, totalToRender, renderedCount,
                    mergeDisabled, timers, nextId, mergeOut, deletedPages,
                    ruleText, rulePageCount, ruleOut, mergeRun, upload >>
    /\ emitted' = { "view:changed" }

MergeNext ==
    \/ MergeStart
    \/ MergeStep
    \/ \E view \in { "byFile", "allPages" } : CallSetView(view)
    \/ \E n \in 1..MaxPages : CallAddFile(n) /\ MergeTracks("add")
    \/ \E fileId \in AnyFileId : CallRemoveFile(fileId) /\ MergeTracks("remove")
    \/ \E fileId \in AnyFileId : \E pageIndex \in 0..MaxPages :
            CallDeletePage(fileId, pageIndex) /\ MergeTracks("delete")
    \/ \E fileId \in AnyFileId : \E pageIndex \in 0..MaxPages :
       \E degrees \in RotateDegrees :
            CallRotatePage(fileId, pageIndex, degrees) /\ MergeTracks("rotate")
    \/ CallBuildGlobalPageOrder /\ MergeTracks("build")
    \/ \E s \in FileIds : \E t \in FileIds :
       \E at \in 1..(MaxPages + 1) : CallImport(s, at, t) /\ MergeTracks("import")

MergeSpec == Init /\ [][MergeNext]_vars

\* ------------------------------------------------------------------------
\* Notions the properties are stated with
\* ------------------------------------------------------------------------

\* The import records of the working set: [owner, record].
importRecords(files) ==
    UNION { { [owner |-> files[i].id, record |-> files[i].importedPages[k]] :
                k \in 1..Len(files[i].importedPages) } : i \in 1..Len(files) }

\* The physical page a logical index stands for, found by following import
\* records to the document that holds the page itself.
RECURSIVE physicalOwner(_, _, _)
physicalOwner(files, fileId, pageIndex) ==
    IF ~hasFile(files, fileId) THEN [file |-> 0, page |-> pageIndex]
    ELSE LET k == findImported(getFile(files, fileId), pageIndex)
         IN  IF k = 0 THEN [file |-> fileId, page |-> pageIndex]
             ELSE LET r == getFile(files, fileId).importedPages[k]
                  IN  physicalOwner(files, r.sourceFileId, r.sourcePageIndex)

\* The places <<document, place in its pageOrder>> whose index composition
\* resolves to the physical page p.
resolvingPlaces(files, p) ==
    UNION { { << i, k >> : k \in
                { n \in 1..Len(files[i].pageOrder) :
                    LET e == resolvePage(files, files[i], files[i].pageOrder[n], 0)
                    IN  Len(e) = 1 /\ e[1].file = p.file /\ e[1].page = p.page } } :
            i \in 1..Len(files) }

\* The documents that gained an import record in the step.
importedInto ==
    { t \in FileIds :
        /\ hasFile(uploadedFiles, t)
        /\ hasFile(uploadedFiles', t)
        /\ Len(getFile(uploadedFiles', t).importedPages)
             > Len(getFile(uploadedFiles, t).importedPages) }

\* The record a document gained last.
lastRecord(file) == file.importedPages[Len(file.importedPages)]

\* A merge has just run / has just downloaded a document.
merged == mergeOut.status # "none"

\* Composition emits the index pageIndex of document fileId.
emittedThrough(files, order, view, fileId, pageIndex) ==
    /\ hasFile(files, fileId)
    /\ LET file == getFile(files, fileId)
           emits(idx, rotation) ==
                idx = pageIndex /\ resolvePage(files, file, idx, rotation) # << >>
       IN  IF view = "allPages" /\ Len(order) > 0
           THEN \E i \in 1..Len(order) :
                    order[i].fileId = fileId /\ emits(order[i].pageIndex, 0)
           ELSE \E i \in 1..Len(pagesToProcess(file)) :
                    emits(pagesToProcess(file)[i].page, 0)

\* ------------------------------------------------------------------------
\* Properties
\* ------------------------------------------------------------------------

\* C1: every import record names the physical owner of the page: the
\* sourcePageIndex of a record is smaller than the physical page count of
\* the document sourceFileId, also after a page was moved twice.
C1_SingleHopImport ==
    \A ir \in importRecords(uploadedFiles) :
        hasFile(uploadedFiles, ir.record.sourceFileId) =>
            ir.record.sourcePageIndex
                < getFile(uploadedFiles, ir.record.sourceFileId).numPages

\* C2: every entry a merge hands to the copy, in either view, is a page of
\* a document of the working set: the index is below that document's
\* physical page count.
C2_ComposedPagesExist ==
    merged =>
        LET pages == compose(uploadedFiles, globalPageOrder, currentView)
        IN  \A i \in 1..Len(pages) : isPhysicalPage(uploadedFiles, pages[i])

\* C3: a page of document a moved to document b and back to a is resolved
\* by composition to the document and physical index it had before the
\* moves, with the rotation of that page.
C3_MoveRoundTrip ==
    \A ra, rb \in importRecords(uploadedFiles) :
        ( /\ ra.record.sourceFileId = rb.owner
          /\ rb.record.sourceFileId = ra.owner
          /\ ra.record.sourcePageIndex = rb.record.newIndex
          /\ hasFile(uploadedFiles, rb.owner)
          /\ rb.record.sourcePageIndex < getFile(uploadedFiles, ra.owner).numPages
          /\ \E k \in 1..Len(getFile(uploadedFiles, ra.owner).pageOrder) :
                getFile(uploadedFiles, ra.owner).pageOrder[k] = ra.record.newIndex )
        => LET a == getFile(uploadedFiles, ra.owner)
           IN  resolvePage(uploadedFiles, a, ra.record.newIndex,
                           rotationOf(a, ra.record.newIndex))
                 = << [ file |-> ra.owner,
                        page |-> rb.record.sourcePageIndex,
                        rotation |-> rotationOf(a, rb.record.sourcePageIndex) ] >>

\* C4: in every state the All Pages composition of globalPageOrder emits
\* no resolved (document, physical index) pair twice.
C4_NoDuplicatePages ==
    LET pages == composeAllPages(uploadedFiles, globalPageOrder)
    IN  \A i, j \in 1..Len(pages) :
            (pages[i].file = pages[j].file /\ pages[i].page = pages[j].page)
                => i = j

\* C5: after a move of an index of the source's pageOrder into a target
\* document, the source index is gone from the source's pageOrder, the new
\* index is in the target's pageOrder once, and exactly one index of all
\* pageOrder sequences resolves to the moved physical page.
C5_MovedPageOnce ==
    [][ \A t \in importedInto :
            LET target == getFile(uploadedFiles', t)
                r == lastRecord(target)
                moved == physicalOwner(uploadedFiles, r.sourceFileId,
                                       r.sourcePageIndex)
            IN  ( /\ hasFile(uploadedFiles, r.sourceFileId)
                  /\ hasFile(uploadedFiles', r.sourceFileId)
                  /\ r.sourcePageIndex \in
                        Range(getFile(uploadedFiles, r.sourceFileId).pageOrder) )
                => /\ r.sourcePageIndex \notin
                        Range(getFile(uploadedFiles', r.sourceFileId).pageOrder)
                   /\ Cardinality({ k \in 1..Len(target.pageOrder) :
                                        target.pageOrder[k] = r.newIndex }) = 1
                   /\ Cardinality(resolvingPlaces(uploadedFiles', moved)) = 1
      ]_vars

\* C6: a move whose source index is not in the source document's pageOrder,
\* or whose source document is missing, changes nothing: a step that gives
\* a document a new page index and import record is a move of an index of
\* the pageOrder of a document of the working set.
C6_InvalidMoveRejected ==
    [][ \A t \in importedInto :
            LET r == lastRecord(getFile(uploadedFiles', t))
            IN  /\ hasFile(uploadedFiles, r.sourceFileId)
                /\ r.sourcePageIndex \in
                        Range(getFile(uploadedFiles, r.sourceFileId).pageOrder)
      ]_vars

\* C7: once deletePage has removed an index from a document, no merge, in
\* either view and with any rules text, emits that index of that document.
C7_DeletionPermanent ==
    mergeOut.status = "saved" =>
        \A d \in deletedPages :
            ~emittedThrough(uploadedFiles, globalPageOrder, currentView,
                            d.fileId, d.pageIndex)

\* What composition emits for the entries of the other documents once
\* document id is gone: the pages it emitted for them before, without the
\* pages of document id.
withoutFile(pages, id) == SelectSeq(pages, LAMBDA e : e.file # id)

\* C8: after a document is removed, composition in both views omits the
\* entries of other documents that resolve through an import from it and
\* is not made to fail: no emitted entry names a missing document, and a
\* composition that succeeded before the removal succeeds after it.  All
\* other entries are emitted as before, in order.
C8_DanglingImportsSkipped ==
    [][ \A id \in FileIds :
            (hasFile(uploadedFiles, id) /\ ~hasFile(uploadedFiles', id)) =>
                /\ \A view \in { "byFile", "allPages" } :
                     LET pages == compose(uploadedFiles', globalPageOrder', view)
                     IN  /\ \A i \in 1..Len(pages) :
                                /\ pages[i].file # id
                                /\ hasFile(uploadedFiles', pages[i].file)
                         /\ mergeResult(uploadedFiles, globalPageOrder, view).status
                                = "saved"
                            => mergeResult(uploadedFiles', globalPageOrder', view).status
                                = "saved"
                /\ \A i \in 1..Len(uploadedFiles') :
                     composeFile(uploadedFiles', uploadedFiles'[i])
                       = withoutFile(
                            composeFile(uploadedFiles,
                                getFile(uploadedFiles, uploadedFiles'[i].id)), id)
                /\ composeAllPages(uploadedFiles', globalPageOrder')
                     = withoutFile(
                          composeAllPages(uploadedFiles,
                              SelectSeq(globalPageOrder,
                                        LAMBDA e : e.fileId # id)), id)
      ]_vars

\* A merge has downloaded a document although an entry of a pageOrder is an
\* import from a document that was removed.
C8_Witness ==
    /\ mergeOut.status = "saved"
    /\ Len(mergeOut.pages) > 0
    /\ \E i \in 1..Len(uploadedFiles) :
        \E k \in 1..Len(uploadedFiles[i].pageOrder) :
            sourceMissing(uploadedFiles, uploadedFiles[i],
                          uploadedFiles[i].pageOrder[k])

\* C9: in every state globalPageOrder holds each {fileId, pageIndex} of
\* every document's pageOrder exactly once, and nothing else.
C9_GlobalOrderPermutation ==
    /\ \A i \in 1..Len(uploadedFiles) :
        \A k \in 1..Len(uploadedFiles[i].pageOrder) :
            Cardinality({ g \in 1..Len(globalPageOrder) :
                /\ globalPageOrder[g].fileId = uploadedFiles[i].id
                /\ globalPageOrder[g].pageIndex = uploadedFiles[i].pageOrder[k] })
              = 1
    /\ \A g \in 1..Len(globalPageOrder) :
        /\ hasFile(uploadedFiles, globalPageOrder[g].fileId)
        /\ globalPageOrder[g].pageIndex \in
              Range(getFile(uploadedFiles, globalPageOrder[g].fileId).pageOrder)

\* C10: a merge leaves uploadedFiles (every document's pageOrder,
\* pageRotations, importedPages, pageCount and rules) and globalPageOrder
\* as they were, and a second merge right after a merge gives the same
\* output.
C10_ComposeReadOnly ==
    [][ mergeOut'.status # "none" =>
            /\ uploadedFiles' = uploadedFiles
            /\ globalPageOrder' = globalPageOrder
            /\ merged => mergeOut' = mergeOut
      ]_vars

\* A merge has downloaded a document after the user's edits.
C10_Witness ==
    /\ mergeOut.status = "saved"
    /\ Len(mergeOut.pages) > 0
    /\ ops > 0

\* ------------------------------------------------------------------------
\* C11: parseRules is total and in range: for every rule text and every
\* pageCount >= 1 it returns a list, and every page index p of the list
\* satisfies 0 <= p < pageCount.
\* ------------------------------------------------------------------------
C11_ParseRulesInRange ==
    /\ rulePageCount >= 1
    /\ DOMAIN ruleOut = 1..Len(ruleOut)
    /\ \A i \in 1..Len(ruleOut) :
        /\ DOMAIN ruleOut[i] = { "page", "rotation" }
        /\ ruleOut[i].page \in 0..(rulePageCount - 1)

\* "33" and "-3..3" on a two-page document: the page numbers 33 and -3 + 3
\* lie outside the document and are brought back into it.
C11_Witness ==
    /\ rulePageCount = 2
    /\ \/ ruleText = << "3", "3" >> /\ ruleOut = << [page |-> 1, rotation |-> 0] >>
       \/ /\ ruleText = << "-", "3", ".", ".", "3" >>
          /\ ruleOut = << [page |-> 0, rotation |-> 0],
                          [page |-> 1, rotation |-> 0] >>

\* ------------------------------------------------------------------------
\* C12: rules never select imported pages: when a merge composes by
\* document, every page emitted for a document with non-empty rule text is
\* a physical page of that same document (its own id, an index below its
\* original page count), also after imports have raised its pageCount.
\* ------------------------------------------------------------------------
filesBranch == ~(currentView = "allPages" /\ Len(globalPageOrder) > 0)

C12_RulesSelectOwnPages ==
    (merged /\ filesBranch) =>
        \A i \in 1..Len(uploadedFiles) :
            ~trimIsEmpty(uploadedFiles[i].rules) =>
                \A k \in 1..Len(composeFile(uploadedFiles, uploadedFiles[i])) :
                    /\ composeFile(uploadedFiles, uploadedFiles[i])[k].file
                           = uploadedFiles[i].id
                    /\ composeFile(uploadedFiles, uploadedFiles[i])[k].page
                           < uploadedFiles[i].numPages

\* ------------------------------------------------------------------------
\* C13: rules precedence when a merge composes by document: for each
\* document in uploadedFiles order, the pages emitted for it are those of
\* parseRules(rules, pageCount), in that order and whatever its pageOrder,
\* when its rule text is not blank, and those of its pageOrder, in order,
\* when it is blank.
\* ------------------------------------------------------------------------
hasRules(file) == \E i \in 1..Len(file.rules) : file.rules[i] # " "

\* The page indexes the claim selects for one document.
selectedPages(file) ==
    IF hasRules(file)
    THEN [i \in 1..Len(parseRules(file.rules, file.pageCount)) |->
            parseRules(file.rules, file.pageCount)[i].page]
    ELSE file.pageOrder

\* The pages of the source documents behind the selected indexes, for all
\* documents in uploadedFiles order.
selectedOutput(files) ==
    LET perFile(file) ==
            LET sel == selectedPages(file)
                G[k \in 0..Len(sel)] ==
                    IF k = 0 THEN << >>
                    ELSE G[k - 1] \o resolvePage(files, file, sel[k], 0)
            IN  G[Len(sel)]
        F[i \in 0..Len(files)] ==
            IF i = 0 THEN << >> ELSE F[i - 1] \o perFile(files[i])
    IN  F[Len(files)]

pagesOnly(pages) ==
    [i \in 1..Len(pages) |-> [file |-> pages[i].file, page |-> pages[i].page]]

C13_RulesPrecedence ==
    (mergeOut.status = "saved" /\ filesBranch) =>
        pagesOnly(mergeOut.pages) = pagesOnly(selectedOutput(uploadedFiles))

\* A merge of a document whose rule text selects other pages than its
\* pageOrder holds, next to a document without rule text whose pageOrder
\* is not the ascending one.
C13_Witness ==
    /\ mergeOut.status = "saved"
    /\ filesBranch
    /\ \E i \in 1..Len(uploadedFiles) :
        /\ hasRules(uploadedFiles[i])
        /\ selectedPages(uploadedFiles[i]) # uploadedFiles[i].pageOrder
    /\ \E i \in 1..Len(uploadedFiles) :
        /\ ~hasRules(uploadedFiles[i])
        /\ uploadedFiles[i].pageOrder = << 1, 0 >>

\* ------------------------------------------------------------------------
\* C14: the flattened composition follows globalPageOrder verbatim: a merge
\* in the allPages view puts out, entry for entry and in order, the page
\* each globalPageOrder entry resolves to through its document's import
\* records (an entry whose source is gone is left out), with the rotation
\* stored in pageRotations for the entry, whatever the rule texts are.
\* ------------------------------------------------------------------------
flattenedOutput(files, order) ==
    LET F[i \in 0..Len(order)] ==
            IF i = 0 THEN << >>
            ELSE IF ~hasFile(files, order[i].fileId) THEN F[i - 1]
            ELSE F[i - 1] \o
                 resolvePage(files, getFile(files, order[i].fileId),
                             order[i].pageIndex,
                             getFile(files, order[i].fileId)
                                 .pageRotations[order[i].pageIndex + 1])
    IN  F[Len(order)]

C14_FlattenedFollowsGlobalOrder ==
    (merged /\ currentView = "allPages") =>
        /\ mergeOut.status = "saved"
        /\ mergeOut.pages = flattenedOutput(uploadedFiles, globalPageOrder)

\* ------------------------------------------------------------------------
\* C15: rule rotation is additive: when a merge composes by document, the
\* rotation of each emitted page is its rule clause's rotation plus the
\* rotation stored in pageRotations for that page index, and the stored
\* rotation alone for a document without rule text; a rule's rotation never
\* replaces the stored one.
\* ------------------------------------------------------------------------
storedRotation(file, pageIndex) ==
    IF pageIndex + 1 \in DOMAIN file.pageRotations
    THEN file.pageRotations[pageIndex + 1] ELSE 0

\* The clause rotation of each selected page of one document.
selectedRotations(file) ==
    IF hasRules(file)
    THEN [i \in 1..Len(parseRules(file.rules, file.pageCount)) |->
            parseRules(file.rules, file.pageCount)[i].rotation]
    ELSE [i \in 1..Len(file.pageOrder) |-> 0]

\* The emitted pages with the sum of clause and stored rotation.
summedOutput(files) ==
    LET perFile(file) ==
            LET sel == selectedPages(file)
                rot == selectedRotations(file)
                G[k \in 0..Len(sel)] ==
                    IF k = 0 THEN << >>
                    ELSE G[k - 1] \o
                         resolvePage(files, file, sel[k],
                                     rot[k] + storedRotation(file, sel[k]))
            IN  G[Len(sel)]
        F[i \in 0..Len(files)] ==
            IF i = 0 THEN << >> ELSE F[i - 1] \o perFile(files[i])
    IN  F[Len(files)]

rotationsOnly(pages) == [i \in 1..Len(pages) |-> pages[i].rotation]

C15_RuleRotationAdditive ==
    (mergeOut.status = "saved" /\ filesBranch) =>
        rotationsOnly(mergeOut.pages)
            = rotationsOnly(summedOutput(uploadedFiles))

\* A page rotated by hand to 90 and selected by the rule "1>" leaves the
\* merge with rotation 180.
C15_Witness ==
    /\ mergeOut.status = "saved"
    /\ filesBranch
    /\ \E i \in 1..Len(uploadedFiles) :
        /\ uploadedFiles[i].rules = << "1", ">" >>
        /\ uploadedFiles[i].pageRotations[1] = 90
        /\ findImported(uploadedFiles[i], 0) = 0
        /\ \E k \in 1..Len(mergeOut.pages) :
            mergeOut.pages[k] =
                [file |-> uploadedFiles[i].id, page |-> 0, rotation |-> 180]

\* ------------------------------------------------------------------------
\* C16: an empty or whitespace-only rule text parses to all pages: for
\* pageCount n, parseRules returns the n entries {page 0, rotation 0} ...
\* {page n-1, rotation 0}, in ascending order.
\* ------------------------------------------------------------------------
C16_BlankRulesAllPages ==
    (\A i \in 1..Len(ruleText) : ruleText[i] = " ") =>
        /\ Len(ruleOut) = rulePageCount
        /\ \A i \in 1..rulePageCount :
            ruleOut[i] = [page |-> i - 1, rotation |-> 0]

\* Two spaces for a three-page document: three entries.
C16_Witness ==
    /\ ruleText = << " ", " " >>
    /\ rulePageCount = 3
    /\ Len(ruleOut) = 3

\* ------------------------------------------------------------------------
\* Reading a rule text as the grammar describes it: numerals, signed
\* numbers, and the 1-based page a number stands for in a document of n
\* pages.
\* ------------------------------------------------------------------------
isNumeral(t) == Len(t) > 0 /\ \A i \in 1..Len(t) : isDigit(t[i])

numeral(t) ==
    LET F[i \in 0..Len(t)] ==
            IF i = 0 THEN 0 ELSE 10 * F[i - 1] + digitValue(t[i])
    IN  F[Len(t)]

isSigned(t) ==
    /\ Len(t) > 0
    /\ IF t[1] = "-" THEN isNumeral(Tail(t)) ELSE isNumeral(t)

signedValue(t) == IF t[1] = "-" THEN 0 - numeral(Tail(t)) ELSE numeral(t)

\* N counted from the end when negative, then brought into 1..n.
pageOf(n, N) ==
    LET w == IF N < 0 THEN n + N + 1 ELSE N
    IN  IF w < 1 THEN 1 ELSE IF w > n THEN n ELSE w

\* The entries of the 1-based pages s to e, upwards or downwards.
entriesFromTo(s, e, rotation) ==
    IF s <= e
    THEN [k \in 1..(e - s + 1) |-> [page |-> (s - 1) + (k - 1), rotation |-> rotation]]
    ELSE [k \in 1..(s - e + 1) |-> [page |-> (s - 1) - (k - 1), rotation |-> rotation]]

\* ------------------------------------------------------------------------
\* C17: range direction: a clause start..end whose bounds resolve to the
\* pages s and e contributes the page indexes s-1 up to e-1 when s <= e
\* and s-1 down to e-1 when s > e: exactly |e - s| + 1 entries.
\* ------------------------------------------------------------------------
C17_RangeDirection ==
    \A k \in 2..(Len(ruleText) - 2) :
        ( /\ ruleText[k] = "." /\ ruleText[k + 1] = "."
          /\ isSigned(SubSeq(ruleText, 1, k - 1))
          /\ isSigned(SubSeq(ruleText, k + 2, Len(ruleText))) ) =>
            ruleOut = entriesFromTo(
                        pageOf(rulePageCount,
                               signedValue(SubSeq(ruleText, 1, k - 1))),
                        pageOf(rulePageCount,
                               signedValue(SubSeq(ruleText, k + 2, Len(ruleText)))),
                        0)

\* "3..1" for a three-page document: the pages in reverse.
C17_Witness ==
    /\ ruleText = << "3", ".", ".", "1" >>
    /\ rulePageCount = 3
    /\ ruleOut = << [page |-> 2, rotation |-> 0], [page |-> 1, rotation |-> 0],
                    [page |-> 0, rotation |-> 0] >>

\* ------------------------------------------------------------------------
\* C18: a single-page clause, a bare integer N, yields exactly one entry,
\* whose 1-based page is N' brought into 1..pageCount, where N' is
\* pageCount + N + 1 for a negative N and N otherwise.
\* ------------------------------------------------------------------------
C18_SinglePageClause ==
    isSigned(ruleText) =>
        ruleOut = << [ page |-> pageOf(rulePageCount, signedValue(ruleText)) - 1,
                       rotation |-> 0 ] >>

\* "-2" for a three-page document is its second page; "-13" is its first.
C18_Witness ==
    /\ rulePageCount = 3
    /\ \/ ruleText = << "-", "2" >> /\ ruleOut = << [page |-> 1, rotation |-> 0] >>
       \/ /\ ruleText = << "-", "1", "3" >>
          /\ ruleOut = << [page |-> 0, rotation |-> 0] >>

\* ------------------------------------------------------------------------
\* C19: open-ended ranges: the clause "N.." stands for the pages from N
\* through pageCount, the clause "..M" for the pages from 1 through M.
\* ------------------------------------------------------------------------
C19_OpenEndedRanges ==
    /\ ( /\ Len(ruleText) >= 3
         /\ SubSeq(ruleText, Len(ruleText) - 1, Len(ruleText)) = << ".", "." >>
         /\ isSigned(SubSeq(ruleText, 1, Len(ruleText) - 2)) ) =>
            ruleOut = entriesFromTo(
                        pageOf(rulePageCount,
                               signedValue(SubSeq(ruleText, 1, Len(ruleText) - 2))),
                        rulePageCount, 0)
    /\ ( /\ Len(ruleText) >= 3
         /\ SubSeq(ruleText, 1, 2) = << ".", "." >>
         /\ isSigned(SubSeq(ruleText, 3, Len(ruleText))) ) =>
            ruleOut = entriesFromTo(
                        1,
                        pageOf(rulePageCount,
                               signedValue(SubSeq(ruleText, 3, Len(ruleText)))),
                        0)

\* For a three-page document "2.." is its pages 2 and 3 and "..2" its
\* pages 1 and 2.
C19_Witness ==
    /\ rulePageCount = 3
    /\ \/ /\ ruleText = << "2", ".", "." >>
          /\ ruleOut = << [page |-> 1, rotation |-> 0], [page |-> 2, rotation |-> 0] >>
       \/ /\ ruleText = << ".", ".", "2" >>
          /\ ruleOut = << [page |-> 0, rotation |-> 0], [page |-> 1, rotation |-> 0] >>

\* ------------------------------------------------------------------------
\* C20: rotation suffix: the entries of a clause carry the rotation 90 for
\* the suffix ">", 180 for "V", 270 for "<" and 0 without suffix; the
\* suffix applies to all pages of a range clause and to no other clause.
\* ------------------------------------------------------------------------
degrees(c) ==
    IF c = ">" THEN 90 ELSE IF c = "V" THEN 180 ELSE IF c = "<" THEN 270 ELSE 0

\* A clause without suffix: a number or a range.
isBareClause(t) ==
    /\ Len(t) > 0
    /\ \A i \in 1..Len(t) : isDigit(t[i]) \/ t[i] \in { "-", "." }

\* A clause: a number or a range, with or without suffix.
isClause(t) ==
    \/ isBareClause(t)
    \/ Len(t) > 1 /\ isBareClause(SubSeq(t, 1, Len(t) - 1))
                  /\ t[Len(t)] \in { ">", "V", "<" }

turned(entries, rotation) ==
    [i \in 1..Len(entries) |-> [page |-> entries[i].page, rotation |-> rotation]]

C20_RotationSuffix ==
    /\ isBareClause(ruleText) =>
            \A i \in 1..Len(ruleOut) : ruleOut[i].rotation = 0
    /\ (isClause(ruleText) /\ ~isBareClause(ruleText)) =>
            ruleOut = turned(parseRules(SubSeq(ruleText, 1, Len(ruleText) - 1),
                                        rulePageCount),
                             degrees(ruleText[Len(ruleText)]))
    /\ \A k \in 2..(Len(ruleText) - 1) :
        ( /\ ruleText[k] = ","
          /\ isClause(SubSeq(ruleText, 1, k - 1))
          /\ isClause(SubSeq(ruleText, k + 1, Len(ruleText))) ) =>
            ruleOut = parseRules(SubSeq(ruleText, 1, k - 1), rulePageCount)
                      \o parseRules(SubSeq(ruleText, k + 1, Len(ruleText)),
                                    rulePageCount)

\* "..V" turns all three pages of a document upside down; in "1<,2" and
\* "1,2>" the suffix turns the page of its own clause alone.
C20_Witness ==
    /\ rulePageCount = 3
    /\ \/ /\ ruleText = << ".", ".", "V" >>
          /\ ruleOut = << [page |-> 0, rotation |-> 180],
                          [page |-> 1, rotation |-> 180],
                          [page |-> 2, rotation |-> 180] >>
       \/ /\ ruleText = << "1", "<", ",", "2" >>
          /\ ruleOut = << [page |-> 0, rotation |-> 270],
                          [page |-> 1, rotation |-> 0] >>
       \/ /\ ruleText = << "1", ",", "2", ">" >>
          /\ ruleOut = << [page |-> 0, rotation |-> 0],
                          [page |-> 1, rotation |-> 90] >>

\* ------------------------------------------------------------------------
\* C21: malformed clauses are dropped in isolation: for a rule text that
\* is not blank, parseRules returns the outputs of its grammatical clauses
\* in clause order; a clause that fails the grammar contributes no entry
\* and leaves the entries of the other clauses as they are; a text without
\* a grammatical clause yields the empty list, not all pages.
\* ------------------------------------------------------------------------
withoutSpaces(t) == SelectSeq(t, LAMBDA c : c # " ")

isBlank(t) == withoutSpaces(t) = << >>

optionalNumber(t) == t = << >> \/ isSigned(t)

optionalSuffix(t) == t = << >> \/ (Len(t) = 1 /\ t[1] \in { ">", "V", "<" })

\* The grammar of a clause: optional start, optional "..", optional end,
\* optional rotation suffix.
isGrammatical(t) ==
    \E a \in 0..Len(t) : \E b \in a..Len(t) : \E c \in b..Len(t) :
        /\ optionalNumber(SubSeq(t, 1, a))
        /\ SubSeq(t, a + 1, b) \in { << >>, << ".", "." >> }
        /\ optionalNumber(SubSeq(t, b + 1, c))
        /\ optionalSuffix(SubSeq(t, c + 1, Len(t)))

\* What the clauses of a piece of a rule text contribute; a piece without
\* any character is the clause with every part left out, the first page.
clausesOut(t, n) ==
    IF isBlank(t) THEN << [page |-> 0, rotation |-> 0] >> ELSE parseRules(t, n)

C21_MalformedClausesDropped ==
    ~isBlank(ruleText) =>
        /\ (\A i \in 1..Len(ruleText) : ruleText[i] # ",") =>
                (ruleOut = << >> <=> ~isGrammatical(withoutSpaces(ruleText)))
        /\ \A k \in 1..Len(ruleText) :
                ruleText[k] = "," =>
                    ruleOut = clausesOut(SubSeq(ruleText, 1, k - 1), rulePageCount)
                              \o clausesOut(SubSeq(ruleText, k + 1, Len(ruleText)),
                                            rulePageCount)

\* "1.,2" and "x,2" are the second page alone; "1x" is no page.
C21_Witness ==
    /\ rulePageCount = 3
    /\ \/ /\ ruleText = << "1", ".", ",", "2" >>
          /\ ruleOut = << [page |-> 1, rotation |-> 0] >>
       \/ /\ ruleText = << "x", ",", "2" >>
          /\ ruleOut = << [page |-> 1, rotation |-> 0] >>
       \/ /\ ruleText = << "1", "x" >>
          /\ ruleOut = << >>

\* ------------------------------------------------------------------------
\* C22: stored rotations stay in {0, 90, 180, 270}: rotatePage sets the
\* stored rotation to (old + delta) mod 360, so after any sequence of
\* rotations and moves the pageRotations entry of every page in a
\* pageOrder is one of 0, 90, 180, 270, and four successive rotations of a
\* page by 90 degrees restore its rotation.
\* ------------------------------------------------------------------------
fourTurns(files, fileId, pageIndex) ==
    rotatePage(rotatePage(rotatePage(rotatePage(files, fileId, pageIndex, 90),
                                     fileId, pageIndex, 90),
                          fileId, pageIndex, 90),
               fileId, pageIndex, 90)

C22_RotationsQuarterTurns ==
    \A i \in 1..Len(uploadedFiles) :
        \A k \in 1..Len(uploadedFiles[i].pageOrder) :
            /\ uploadedFiles[i].pageRotations[uploadedFiles[i].pageOrder[k] + 1]
                    \in { 0, 90, 180, 270 }
            /\ fourTurns(uploadedFiles, uploadedFiles[i].id,
                         uploadedFiles[i].pageOrder[k]) = uploadedFiles

\* ------------------------------------------------------------------------
\* C23: the frame of deletePage: deletePage(fileId, pageIndex) takes
\* pageIndex out of that document's pageOrder and the matching entry out
\* of globalPageOrder, keeps the order of what remains, and leaves the
\* document's pageCount, pageRotations and importedPages and every other
\* document as they are; with an unknown fileId it changes nothing.
\* ------------------------------------------------------------------------
C23_DeletePageFrame ==
    [][ \A fileId \in AnyFileId : \A pageIndex \in 0..MaxPages :
          CallDeletePage(fileId, pageIndex) =>
            /\ Len(uploadedFiles') = Len(uploadedFiles)
            /\ \A i \in 1..Len(uploadedFiles) :
                IF uploadedFiles[i].id = fileId
                THEN /\ uploadedFiles'[i].pageOrder =
                            SelectSeq(uploadedFiles[i].pageOrder,
                                      LAMBDA idx : idx # pageIndex)
                     /\ uploadedFiles'[i] =
                            [uploadedFiles[i] EXCEPT
                                !.pageOrder = uploadedFiles'[i].pageOrder]
                ELSE uploadedFiles'[i] = uploadedFiles[i]
            /\ globalPageOrder' =
                IF \E i \in 1..Len(uploadedFiles) : uploadedFiles[i].id = fileId
                THEN SelectSeq(globalPageOrder,
                        LAMBDA e : e.fileId # fileId \/ e.pageIndex # pageIndex)
                ELSE globalPageOrder
      ]_vars

\* Of a document's two pages one went into the other document and one was
\* deleted; its pageCount is still 2 and globalPageOrder holds one entry
\* of it, not that of the deleted page.
C23_Witness ==
    /\ Len(uploadedFiles) = 2
    /\ \E i \in 1..2 : \E j \in 1..2 :
        /\ uploadedFiles[i].numPages = 2
        /\ uploadedFiles[i].pageCount = 2
        /\ uploadedFiles[i].pageOrder = << >>
        /\ uploadedFiles[i].importedPages = << >>
        /\ Len(uploadedFiles[j].importedPages) = 1
        /\ Len(SelectSeq(globalPageOrder,
                LAMBDA e : e.fileId = uploadedFiles[i].id)) = 1
        /\ \E k \in 1..Len(globalPageOrder) :
                globalPageOrder[k].fileId = uploadedFiles[j].id

\* ------------------------------------------------------------------------
\* C24: the initial state of an added document: a newly registered
\* document of n physical pages has pageOrder 0 .. n-1, pageRotations all
\* 0, empty rules and no import records; registering it leaves the model
\* of every existing document unchanged and resets globalPageOrder to
\* empty.
\* ------------------------------------------------------------------------
C24_AddFileInitialState ==
    [][ \A n \in 1..MaxPages :
          HandleFiles(n) =>
            /\ Len(uploadedFiles') = Len(uploadedFiles) + 1
            /\ \A i \in 1..Len(uploadedFiles) :
                    uploadedFiles'[i] = uploadedFiles[i]
            /\ LET new == uploadedFiles'[Len(uploadedFiles')]
               IN  /\ \A i \in 1..Len(uploadedFiles) :
                            uploadedFiles[i].id # new.id
                   /\ new.numPages = n
                   /\ new.pageCount = n
                   /\ Len(new.pageOrder) = n
                   /\ \A k \in 1..n : new.pageOrder[k] = k - 1
                   /\ Len(new.pageRotations) = n
                   /\ \A k \in 1..n : new.pageRotations[k] = 0
                   /\ new.rules = << >>
                   /\ new.importedPages = << >>
            /\ globalPageOrder' = << >>
      ]_vars

\* A two-page document has just been added next to a document whose pages
\* the user had reordered; the upload's timer has not yet fired.
C24_Witness ==
    /\ Len(uploadedFiles) = 2
    /\ uploadedFiles[1].pageOrder = << 1, 0 >>
    /\ uploadedFiles[2].pageOrder = << 0, 1 >>
    /\ uploadedFiles[2].pageRotations = << 0, 0 >>
    /\ globalPageOrder = << >>
    /\ timers > 0

\* ------------------------------------------------------------------------
\* C25: the purge of removeFile: after removeFile(id) no document of
\* uploadedFiles has that id and no globalPageOrder entry has fileId = id;
\* the remaining documents and the remaining entries keep their relative
\* order, and the models of the remaining documents are unchanged.
\* ------------------------------------------------------------------------
C25_RemoveFilePurge ==
    [][ \A fileId \in AnyFileId :
          CallRemoveFile(fileId) =>
            /\ \A i \in 1..Len(uploadedFiles') : uploadedFiles'[i].id # fileId
            /\ \A k \in 1..Len(globalPageOrder') :
                    globalPageOrder'[k].fileId # fileId
            /\ uploadedFiles' =
                    SelectSeq(uploadedFiles, LAMBDA f : f.id # fileId)
            /\ globalPageOrder' =
                    SelectSeq(globalPageOrder, LAMBDA e : e.fileId # fileId)
      ]_vars

\* The document left over holds a page of the removed one, and
\* globalPageOrder names the left-over document alone.
C25_Witness ==
    /\ Len(uploadedFiles) = 1
    /\ Len(uploadedFiles[1].importedPages) = 1
    /\ uploadedFiles[1].importedPages[1].sourceFileId # uploadedFiles[1].id
    /\ Len(globalPageOrder) = 2
    /\ \A k \in 1..2 : globalPageOrder[k].fileId = uploadedFiles[1].id

\* ------------------------------------------------------------------------
\* C26: empty composition: when every page of every document has been
\* deleted, a merge composes the empty page list and reports no error, in
\* either view and whatever rule texts the documents carry.  (Without any
\* document mergePDFs returns before it composes.)
\* ------------------------------------------------------------------------
C26_EmptyComposition ==
    (merged /\ \A i \in 1..Len(uploadedFiles) :
                    uploadedFiles[i].pageOrder = << >>) =>
        /\ mergeOut.status = "saved"
        /\ mergeOut.pages = << >>

\* ------------------------------------------------------------------------
\* C27: composition observes one consistent snapshot: though mergePDFs
\* suspends at an await for every page, what it puts out is the composition
\* of the model as it was at one instant of the merge, for every
\* interleaving of deletePage, rotatePage, removeFile, moves and addFile
\* with the merge loop.
\* ------------------------------------------------------------------------
C27_ConsistentSnapshot ==
    (mergeRun.phase = "done" /\ mergeRun.status = "saved") =>
        mergeRun.out \in mergeRun.seen

\* ------------------------------------------------------------------------
\* C28: pageOrder is well formed in every reachable state: no document's
\* pageOrder holds an index twice, and every index in it is either smaller
\* than the document's original physical page count or the newIndex of
\* exactly one record of its importedPages, never both.
\* ------------------------------------------------------------------------
recordsFor(file, idx) ==
    { k \in 1..Len(file.importedPages) : file.importedPages[k].newIndex = idx }

C28_PageOrderWellFormed ==
    \A i \in 1..Len(uploadedFiles) :
        /\ \A a \in 1..Len(uploadedFiles[i].pageOrder) :
           \A b \in 1..Len(uploadedFiles[i].pageOrder) :
                uploadedFiles[i].pageOrder[a] = uploadedFiles[i].pageOrder[b]
                    => a = b
        /\ \A a \in 1..Len(uploadedFiles[i].pageOrder) :
            IF uploadedFiles[i].pageOrder[a] < uploadedFiles[i].numPages
            THEN recordsFor(uploadedFiles[i], uploadedFiles[i].pageOrder[a]) = { }
            ELSE Cardinality(recordsFor(uploadedFiles[i],
                                        uploadedFiles[i].pageOrder[a])) = 1

\* ------------------------------------------------------------------------
\* C29: logical indexes are never reused: a move into a document allocates
\* newIndex = the document's pageCount and raises pageCount by exactly 1;
\* pageCount never goes down (a delete does not lower it), so an allocated
\* index differs from every index the document has had, and every index
\* of pageOrder is smaller than pageCount.
\* ------------------------------------------------------------------------
C29_IndexesNeverReused ==
    [][ /\ \A i \in 1..Len(uploadedFiles) : \A j \in 1..Len(uploadedFiles') :
            uploadedFiles[i].id = uploadedFiles'[j].id =>
                LET old == uploadedFiles[i]
                    new == uploadedFiles'[j]
                    grown == Len(new.importedPages) - Len(old.importedPages)
                IN  /\ grown \in { 0, 1 }
                    /\ new.pageCount = old.pageCount + grown
                    /\ SubSeq(new.importedPages, 1, Len(old.importedPages))
                            = old.importedPages
                    /\ grown = 1 =>
                            new.importedPages[Len(new.importedPages)].newIndex
                                = old.pageCount
        /\ \A j \in 1..Len(uploadedFiles') :
            /\ \A k \in 1..Len(uploadedFiles'[j].pageOrder) :
                    uploadedFiles'[j].pageOrder[k] < uploadedFiles'[j].pageCount
            /\ \A a \in 1..Len(uploadedFiles'[j].importedPages) :
               \A b \in 1..Len(uploadedFiles'[j].importedPages) :
                    uploadedFiles'[j].importedPages[a].newIndex
                        = uploadedFiles'[j].importedPages[b].newIndex => a = b
      ]_vars

\* A document that has taken in two pages, one after the other: the second
\* import has an index of its own, and pageCount counts both.
C29_Witness ==
    \E i \in 1..Len(uploadedFiles) :
        /\ Len(uploadedFiles[i].importedPages) = 2
        /\ uploadedFiles[i].pageCount = uploadedFiles[i].numPages + 2
        /\ uploadedFiles[i].importedPages[1].newIndex = uploadedFiles[i].numPages
        /\ uploadedFiles[i].importedPages[2].newIndex
                = uploadedFiles[i].numPages + 1

\* ------------------------------------------------------------------------
\* C30: in the allPages view the merged output is always the flattened
\* composition of globalPageOrder: whenever a merge runs with currentView =
\* "allPages" and at least one page included, mergePDFs takes the
\* globalPageOrder branch, also between addFile, which empties
\* globalPageOrder, and the delayed rebuild by preparePagesViewDom; it
\* never falls back to the by-document branch.
\* ------------------------------------------------------------------------
C30_AllPagesNeverFallsBack ==
    ( /\ merged
      /\ currentView = "allPages"
      /\ getTotalPageCount(uploadedFiles) > 0 ) =>
        /\ ~filesBranch
        /\ mergeOut.pages = composeAllPages(uploadedFiles, globalPageOrder)

\* ------------------------------------------------------------------------
\* C31: every model mutation is announced: a step that changes the working
\* set or a document's pageOrder, pageRotations, pageCount, importedPages
\* or rules dispatches a change event, also a reorder within a document, a
\* move between documents and a drag in the Pages view.
\* ------------------------------------------------------------------------
C31_MutationsAnnounced ==
    [][ uploadedFiles' # uploadedFiles => emitted' # { } ]_vars

\* ------------------------------------------------------------------------
\* C32: a reorder in the Pages view is pushed back to the documents: after
\* a drag in the Pages view has ended, globalPageOrder is the sequence of
\* the grid as dropped, every document that has entries in it has as its
\* pageOrder the indexes of its entries, in their order there, and a
\* document that is neither the old nor the new owner of the dropped page
\* keeps its set of indexes.
\* ------------------------------------------------------------------------

\* The page indexes of the entries of a document in a flat order.
entriesOf(order, fileId) ==
    LET at == { i \in 1..Len(order) : order[i].fileId = fileId }
        place(k) == CHOOSE i \in at : Cardinality({ j \in at : j < i }) = k - 1
    IN  [k \in 1..Cardinality(at) |-> order[place(k)].pageIndex]

pushedBack(from, to) ==
    /\ globalPageOrder' =
            [i \in 1..Len(allPagesGrid') |->
                [ fileId |-> allPagesGrid'[i].fileId,
                  pageIndex |-> allPagesGrid'[i].pageIndex ]]
    /\ Len(allPagesGrid') = Len(allPagesGrid)
    /\ \A i \in 1..Len(uploadedFiles') :
            entriesOf(globalPageOrder', uploadedFiles'[i].id) # << >> =>
                uploadedFiles'[i].pageOrder =
                    entriesOf(globalPageOrder', uploadedFiles'[i].id)
    /\ \A i \in 1..Len(uploadedFiles) :
            uploadedFiles[i].id \notin
                { allPagesGrid[from].fileId, allPagesGrid'[to].fileId } =>
                    /\ hasFile(uploadedFiles', uploadedFiles[i].id)
                    /\ Range(getFile(uploadedFiles', uploadedFiles[i].id).pageOrder)
                         = Range(uploadedFiles[i].pageOrder)

C32_PagesReorderPushedBack ==
    [][ \A from \in 1..Len(allPagesGrid) : \A to \in 1..Len(allPagesGrid) :
            DragInPagesView(from, to) => pushedBack(from, to) ]_vars

\* ------------------------------------------------------------------------
\* C33: the move rule of the Pages-view drag: the dropped page changes
\* owner to document X exactly when X is not its owner and both neighbours
\* exist and belong to X, or the page is last and the neighbour before it
\* belongs to X, or the page is first and the neighbour after it belongs
\* to X.  In every other case no import record is made and the owner stays.
\* ------------------------------------------------------------------------

\* The documents the rule names for the thumb at place at of thumbs.
joins(thumbs, at) ==
    { X \in FileIds :
        /\ X # thumbs[at].fileId
        /\ \/ at > 1 /\ at < Len(thumbs)
              /\ thumbs[at - 1].fileId = X /\ thumbs[at + 1].fileId = X
           \/ at > 1 /\ at = Len(thumbs) /\ thumbs[at - 1].fileId = X
           \/ at = 1 /\ at < Len(thumbs) /\ thumbs[at + 1].fileId = X }

allRecords(files) ==
    [i \in 1..Len(files) |-> << files[i].id, files[i].importedPages >>]

movedByRule(from, to) ==
    LET thumbs == MoveItem(allPagesGrid, from, to)
        owner == thumbs[to].fileId
        X == joins(thumbs, to)
    IN  IF X = { }
        THEN /\ allRecords(uploadedFiles') = allRecords(uploadedFiles)
             /\ allPagesGrid'[to].fileId = owner
             /\ allPagesGrid'[to].pageIndex = thumbs[to].pageIndex
        ELSE \E target \in X :
             /\ X = { target }
             /\ allPagesGrid'[to].fileId = target
             /\ hasFile(uploadedFiles', target)
             /\ LET t == getFile(uploadedFiles', target)
                IN  /\ t.importedPages # << >>
                    /\ lastRecord(t) =
                         [ newIndex |-> allPagesGrid'[to].pageIndex,
                           sourceFileId |-> owner,
                           sourcePageIndex |-> thumbs[to].pageIndex ]
                    /\ Len(t.importedPages) =
                         Len(getFile(uploadedFiles, target).importedPages) + 1

C33_ImplicitMoveRule ==
    [][ \A from \in 1..Len(allPagesGrid) : \A to \in 1..Len(allPagesGrid) :
            DragInPagesView(from, to) => movedByRule(from, to) ]_vars

\* A page dropped at the end of the Pages grid behind a page of another
\* document has joined that document: its thumb carries the index of the
\* import record made for it, and nothing else has been edited.
C33_Witness ==
    /\ currentView = "allPages"
    /\ ops = 1
    /\ emitted = { }
    /\ Len(allPagesGrid) > 1
    /\ LET n == Len(allPagesGrid)
           X == allPagesGrid[n].fileId
       IN  /\ allPagesGrid[n - 1].fileId = X
           /\ hasFile(uploadedFiles, X)
           /\ getFile(uploadedFiles, X).importedPages # << >>
           /\ lastRecord(getFile(uploadedFiles, X)).newIndex =
                allPagesGrid[n].pageIndex
           /\ lastRecord(getFile(uploadedFiles, X)).sourceFileId # X
           /\ globalPageOrder # << >>
           /\ globalPageOrder[Len(globalPageOrder)].fileId = X

\* ------------------------------------------------------------------------
\* C34: a reorder within a document is a pure permutation: when a drag in
\* the Files view starts and ends in the grid of the same document, the
\* pageOrder of the document becomes a permutation of what it was, its
\* pageCount, pageRotations and importedPages stay, no other document
\* changes, and globalPageOrder becomes the pageOrders of all documents one
\* after the other, in document order.
\* ------------------------------------------------------------------------

\* How often x occurs in s.
occurrences(s, x) == Cardinality({ i \in 1..Len(s) : s[i] = x })

isPermutation(s, t) ==
    /\ Len(s) = Len(t)
    /\ \A x \in Range(s) \cup Range(t) : occurrences(s, x) = occurrences(t, x)

\* The place of a document in the working set.
placeOf(files, fileId) == CHOOSE i \in 1..Len(files) : files[i].id = fileId

\* order is the pageOrders of files one after the other.
isConcatenation(order, files) ==
    /\ \A i \in 1..Len(order) : hasFile(files, order[i].fileId)
    /\ \A i \in 1..Len(order) : \A j \in 1..Len(order) :
            i < j => placeOf(files, order[i].fileId)
                        <= placeOf(files, order[j].fileId)
    /\ \A i \in 1..Len(files) :
            entriesOf(order, files[i].id) = files[i].pageOrder

reordered(id) ==
    /\ Len(uploadedFiles') = Len(uploadedFiles)
    /\ \A i \in 1..Len(uploadedFiles) :
            IF uploadedFiles[i].id = id
            THEN /\ isPermutation(uploadedFiles'[i].pageOrder,
                                  uploadedFiles[i].pageOrder)
                 /\ uploadedFiles'[i] =
                        [uploadedFiles[i] EXCEPT
                            !.pageOrder = uploadedFiles'[i].pageOrder]
            ELSE uploadedFiles'[i] = uploadedFiles[i]
    /\ isConcatenation(globalPageOrder', uploadedFiles')

C34_ReorderIsPermutation ==
    [][ \A id \in FileIds : \A from \in 1..Len(pagesGrids[id]) :
        \A to \in 1..Len(pagesGrids[id]) :
            ReorderInFile(id, from, to) => reordered(id) ]_vars

\* ------------------------------------------------------------------------
\* C35: reorderFiles preserves the working set: called with the ids of
\* the documents in some order, with or without ids that name no document
\* among them, it leaves exactly the same documents, each as it was, in the
\* order of the ids given; the by-document composition then emits the
\* pages of the documents in that order; globalPageOrder is emptied.
\* ------------------------------------------------------------------------

\* The ids of newFileIds that name a document.
knownIds(files, newFileIds) ==
    SelectSeq(newFileIds, LAMBDA id : \E i \in 1..Len(files) : files[i].id = id)

\* What the by-document composition makes of the documents ids, in turn.
RECURSIVE pagesInOrder(_, _)
pagesInOrder(files, ids) ==
    IF ids = << >> THEN << >>
    ELSE composeFile(files, getFile(files, Head(ids)))
            \o pagesInOrder(files, Tail(ids))

reorderedFiles(newFileIds) ==
    LET ids == knownIds(uploadedFiles, newFileIds)
    IN  isPermutation(ids, fileIdsOf(uploadedFiles)) =>
            /\ fileIdsOf(uploadedFiles') = ids
            /\ \A i \in 1..Len(uploadedFiles) :
                    getFile(uploadedFiles', uploadedFiles[i].id) = uploadedFiles[i]
            /\ compose(uploadedFiles', globalPageOrder', "byFile")
                    = pagesInOrder(uploadedFiles, ids)
            /\ globalPageOrder' = << >>

C35_ReorderFilesPreserves ==
    [][ \A newFileIds \in FileIdLists :
            CallReorderFiles(newFileIds) => reorderedFiles(newFileIds) ]_vars

\* Two documents stand in the reverse of the order they were added in, and
\* the composition emits the pages of the later one first.
C35_Witness ==
    /\ Len(uploadedFiles) = 2
    /\ uploadedFiles[1].id = 2
    /\ uploadedFiles[2].id = 1
    /\ uploadedFiles[1].pageOrder # << >>
    /\ uploadedFiles[2].pageOrder # << >>
    /\ globalPageOrder = << >>
    /\ emitted = { "files:reordered" }
    /\ compose(uploadedFiles, globalPageOrder, "byFile")[1].file = 2

\* ------------------------------------------------------------------------
\* C36: the merge button is enabled again in the end: an upload disables
\* it, and with the timers and the rendering callbacks scheduled fairly it
\* is enabled again in every execution, also when the uploaded document is
\* removed before the delayed preparePagesViewDom runs and finds no new
\* page.
\* ------------------------------------------------------------------------
C36_MergeButtonReenabled == mergeDisabled ~> ~mergeDisabled

\* ------------------------------------------------------------------------
\* C37: a single rendering loop: a callback of the Pages loop is pending
\* exactly while isRendering is set, and a submission of pages to an
\* active loop leaves its snapshot and its position alone and adds the
\* pages to the grid unrendered; the loop signals completion only when no
\* thumb of the grid is unrendered; while the loop is active renderedCount
\* is at most totalToRender.
\* ------------------------------------------------------------------------

unrendered(grid) == { i \in 1..Len(grid) : grid[i].rendered # "yes" }

loopKept ==
    (isRendering /\ isRendering') =>
        /\ pagesToRender' = pagesToRender
        /\ currentIndex' \in { currentIndex, currentIndex + 1 }
        /\ Len(allPagesGrid') > Len(allPagesGrid) + 1 =>
                /\ currentIndex' = currentIndex
                /\ \A i \in (Len(allPagesGrid) + 1)..Len(allPagesGrid') :
                        allPagesGrid'[i].rendered = "no"

completedClean ==
    (isRendering /\ ~isRendering') => unrendered(allPagesGrid') = { }

oneLoop ==
    /\ isRendering <=> loopPhase # "idle"
    /\ isRendering => renderedCount <= totalToRender

C37_SingleRenderingLoop == [][oneLoop' /\ loopKept /\ completedClean]_vars

\* The loop is active and has been handed further pages: the grid holds
\* thumbs it has yet to render beyond its own snapshot, and totalToRender
\* counts them.
C37_Witness ==
    /\ isRendering
    /\ totalToRender > Len(pagesToRender)
    /\ renderedCount > 0
    /\ \E i \in 1..Len(allPagesGrid) : allPagesGrid[i].rendered = "no"

\* ------------------------------------------------------------------------
\* C38: an upload is fault-isolated file by file, and ordered: within one
\* handleFiles the documents are registered in the order of the list; a
\* file whose load fails, or whose password prompt is cancelled, is not
\* added and changes no document, and the loop goes on to the next file;
\* the password loop of a file ends only with a load that succeeds, with a
\* cancel, or with an error that is not a password error.
\* ------------------------------------------------------------------------

\* The documents registered since the call began.
registered == SubSeq(uploadedFiles, Len(upload.start) + 1, Len(uploadedFiles))

\* The k-th smallest member of a set of places.
kth(S, k) == CHOOSE i \in S : Cardinality({ j \in S : j < i }) = k - 1

\* The documents registered are, in order, files of the list the loop is
\* done with: every one of those that loads, none that fails to.
inListOrder ==
    upload.phase # "idle" =>
        /\ Len(uploadedFiles) >= Len(upload.start)
        /\ SubSeq(uploadedFiles, 1, Len(upload.start)) = upload.start
        /\ \E S \in SUBSET (1..(upload.at - 1)) :
            /\ Cardinality(S) = Len(registered)
            /\ \A i \in 1..(upload.at - 1) :
                    /\ upload.files[i].load = "ok" => i \in S
                    /\ upload.files[i].load = "broken" => i \notin S
            /\ \A k \in 1..Len(registered) :
                    /\ registered[k].pageCount = upload.files[kth(S, k)].pages
                    /\ registered[k].pageOrder =
                            [i \in 1..registered[k].pageCount |-> i - 1]
                    /\ k > 1 => registered[k].id > registered[k - 1].id

\* The step is the last of the file in hand.
fileEnds == upload.phase # "idle"
            /\ (upload'.phase = "idle" \/ upload'.at # upload.at)

added(n) ==
    /\ Len(uploadedFiles') = Len(uploadedFiles) + 1
    /\ SubSeq(uploadedFiles', 1, Len(uploadedFiles)) = uploadedFiles
    /\ uploadedFiles'[Len(uploadedFiles')].pageCount = n

fileByFile ==
    LET f == upload.files[upload.at]
    IN  /\ upload.phase # "idle" /\ ~fileEnds =>
                /\ uploadedFiles' = uploadedFiles
                /\ upload'.files = upload.files
        /\ fileEnds =>
                /\ IF upload.at < Len(upload.files)
                   THEN /\ upload'.phase = "load"
                        /\ upload'.at = upload.at + 1
                        /\ upload'.files = upload.files
                   ELSE upload'.phase = "idle" /\ timers' = timers + 1
                /\ f.load = "ok" => added(f.pages)
                /\ f.load = "broken" => uploadedFiles' = uploadedFiles
                /\ f.load = "protected" =>
                        \/ upload.phase = "modal"
                              /\ uploadedFiles' = uploadedFiles
                        \/ upload.phase = "load" /\ upload.password
                              /\ (added(f.pages) \/ uploadedFiles' = uploadedFiles)

C38_UploadFaultIsolated == [][inListOrder' /\ fileByFile]_vars

\* The loop is at the third file of a list whose first file was registered
\* and whose second, a protected one, was not.
C38_Witness ==
    /\ upload.phase = "load"
    /\ upload.at = 3
    /\ upload.files[1].load = "ok"
    /\ upload.files[2].load = "protected"
    /\ Len(registered) = 1
    /\ registered[1].pageCount = upload.files[1].pages

====
